# A verification of procs in TLA+

`procs` runs a developer's services: a daemon supervises one child process per project in a
PTY, a terminal UI attaches to the daemon over a unix socket and shows their state and
output.  This directory models the parts of it where goroutines, processes, files and keys
interact, checks the models with TLC on small instances, and proves what matters most with
TLAPS for every instance.

    tlc -config <run>.cfg <module>        one of the runs listed below
    tlapm <component>Proofs.tla           the proofs: Child, Log, Server, Launch, Manager,
                                          Tui, Sidebar and Panel

## The system

| Part | State it keeps | Operations | Modelled in |
|---|---|---|---|
| Child (`internal/process/child.go`, `restart.go`, `signals.go`, `pty.go`) | state, cmd/ptmx/pid, waitDone channel, cancel function, stopRequested; the policy's attempts and reset timer | Start, Stop, Restart, the `run` goroutine, the reset timer's callback | `Policy`, `Child` |
| Manager (`manager.go`) | the children, the config, the event channel, a WaitGroup | Start, Stop, Restart by id, groups, StopAll, Reload, Close | `Manager` |
| Runtime store, registry (`internal/state`) | one record per project, subscribers; rings and files | Apply, Seed, Set, Delete, Subscribe; WriteRaw, ClearBuffer | `Sidebar` (the store and its subscribers), `Manager` (Seed, Delete beside Apply), `Server` and `Child` (Apply), `LogEntry` (WriteRaw) |
| Log buffering (`internal/log`) | line buffer, ring, rotating file | Feed, Push, PushMany, Clear, Write with rotation | `RingBuffer`, `LogTail`, `LogEntry` |
| Server (`internal/daemon/server.go`, `client_conn.go`) | the one client, broadcast rings, two queues per connection | accept, register, unregister, forward, shutdown; dispatch, reload | `Server`; dispatch and reload in `Manager` |
| Daemon life (`cmd/procs/daemon_run.go`, `launch.go`, `subcommands.go`; `internal/daemon/orphans.go`; `internal/ipc/paths.go`) | pidfile and flock, socket, children file | ensureDaemon, runDaemon, kill, kill --orphans, status | `Launch` |
| Client (`internal/client`) | mirror of the runtime store and of the log rings | applySnapshot, applyEvent | `Server` |
| TUI model (`internal/tui/*.go`) | mode, overlays, the messages under way, the selection | key routing, messages, the two pumps, log refresh | `Tui`, `Sidebar` |
| Terminal attach (`internal/tui/attach`) | the embedded session, its detach detector, the flush timer | keys, failing writes, detach, the watch on the session's error | `Tui` |
| Log panel (`internal/tui/panes/logpanel*.go`) | lines, painted rows, offset, cursor, selection, matches, a command half typed | SetLines, scrolling, search, mouse, copy mode | `Motions`, `LogPanel` |
| Sidebar, overlays (`internal/tui/panes/sidebar.go`, `overlays`) | rows, cursor; open or closed | SetRows, SetSelected, keys | `Sidebar`, `Tui` |
| Codec, configuration, probes (git, ports, process statistics), command line | none that changes at run time | parsing, reading, framing | not modelled |

How they meet.  A client's command reaches `Server.dispatch`, which runs each in a goroutine of
its own; so any number of calls on the manager, and on one child, are under way at once, beside
the child's own `run` goroutine.  A child announces what happens to it on the manager's event
channel with a non-blocking send.  One *source goroutine* takes events from the channel,
applies them to the runtime store and the log rings, and queues them for the one connected
client; it also registers and unregisters clients, which makes a snapshot consistent with the
stream that follows it.  A connection's writer goroutine drains two queues, control before log.
In the TUI the client's mirror is a runtime store and a registry again; two commands wait on the
store and bring snapshots to `Update`, a tick reads the log ring of the selected project, and
every other effect of a key is a command whose message comes back later.  Daemons and commands
meet only through three files.

What is hard about it:

* **Child**: every operation is a sequence of short critical sections on `c.mu` with an atomic
  flag, channel closes and event sends between them; `run` reads `c.cmd` and `c.waitDone`
  again long after Start wrote them; a respawn goes through `idle` and calls the public
  Start; Restart waits 50 ms for something that may take longer.
* **Manager**: a command holds `m.mu` only for the lookup; Reload needs it three times; Close
  must find everything that its wait will wait for.
* **Server**: handoff between two clients, a slow client, a late unregister, and shutdown
  while everybody still talks to a goroutine that is about to end.
* **Launch**: a lock on an inode whose path is unlinked at each exit, a probe before an
  unlink, timeouts, cleanup that overlaps the next start, crashes that leave files and
  processes behind.
* **Logs**: reads end anywhere, the ring wraps in three fields, a rotation is a chain of renames
  that a kill or an error breaks off.
* **TUI**: keys typed ahead of messages that change who owns the keyboard; an index for a
  selection; snapshots that overtake each other; a log panel whose lines, rows, offset, cursor,
  selection and matches all name each other.

The full list, at the lines where they bite and with the properties that watch them, is
`hazards` in `PROJECT.json`.

## The modules

| Module | What it is |
|---|---|
| `Policy` | The restart policy: one action per method, since each holds `p.mu` throughout, and the timer callback, which may be late. |
| `Child` | EXTENDS `Policy`. Callers, run goroutines, processes. One action per stretch of code between two points where another goroutine can take `c.mu`, load `stopRequested` or receive from a channel. |
| `Manager` | The map, the commands' goroutines step by step through the methods of `Child`, the children as objects, their run goroutines, reload, Close, the store behind the event channel. |
| `Server` | Event channel, source goroutine, connections with their writer, reader and two queues, accept loop, `ListenAndServe`. |
| `Launch` | Users' commands, daemons, pidfile inodes and locks, socket, children record. |
| `LogTail` | The abstract specification of a log ring: the last `Cap` lines pushed since it was cleared. |
| `RingBuffer` | The ring with its `head`, `count` and slots, which implements `LogTail`. |
| `LogEntry` | EXTENDS `RingBuffer`. `WriteRaw`: line buffer, ring, rotating file, with failures and crashes. |
| `Motions` | The pure half of copy mode: words, finds, text objects, ranges, wrapping. |
| `CursorWalk` | Walks buffers by words and compares `Motions` with reference definitions. |
| `LogPanel` | EXTENDS `Motions`. The panel itself. |
| `Sidebar` | The store, its subscriptions, the two pumps, rows, cursor, selection, generations of the rings. |
| `Tui` | Mode, overlays, attach session, messages under way. |
| `*Properties` | What each component promises. |
| `MC*` | Constants, and symmetry where it is sound, for TLC. |
| `ChildProofs` | Theorems about `Child` in every environment; about a child that only Start starts. |
| `LogProofs` | Theorems about `RingBuffer` and `LogEntry`. |
| `ServerProofs`, `LaunchProofs`, `ManagerProofs`, `TuiProofs`, `SidebarProofs` | Theorems about the module of that name. |
| `PanelProofs` | Theorems about `LogPanel`, and about `Motions` by way of `CursorWalk`. |

### Child

An *incarnation* is one accepted Start; its number names the context, the process, the
`waitDone` channel and the run goroutine that Start creates, so `cmd`, `waitDone` and
`cancelFn` are numbers (0 is nil).  `Threads` are the callers and the run goroutines, `pc`
says where each one is: labels `start...` are lines of `Child.Start` (run by a caller, or by a
run goroutine that respawns), `run...` of `Child.run`, `stop...` of `Child.Stop` and
`gracefulStop`, `restart...` of `Child.Restart`.  `closed` and `cancelled` are the closed
channels and the finished contexts; `wg` is the manager's WaitGroup; a panic (close of a
closed channel, Wait on a nil cmd) sets `panicked`, after which nothing moves, as the daemon
is gone.  `published` is the record RuntimeStore holds once it has applied all events so far.

Abstracted: the output of a process, how long a backoff or the grace period is (either may
elapse at any time), exit codes other than 0 and 1, BuildEnv and startPTY errors (one
nondeterministic failure).  The end of the PTY is taken to follow the end of the process: a
grandchild that keeps the PTY open only delays `RunReap`.  SIGTERM need not do anything, so
it is not an action; SIGKILL is recorded in `killed`, and a killed process ends.
`Settles = TRUE` is the environment in which Restart's 50 ms outlast the old run goroutine.

Bounds: `MaxSpawns` incarnations and `MaxCalls` calls.  A call, or a backoff that ends, is
begun only when the incarnations it may need are left (`Promised`), so that the bound never
blocks a goroutine in the middle of an operation.

### Server

One record per connection: `ctrl` and `logq` are its queues, `hand` the envelope the writer
has taken, `writer` and `reader` where the two goroutines are, `view` and `lines` what the
client makes of what has been written (a control event is a change of one project's state; a
log line is a number).  The four capacities of the code are constants.  What a writer has
written counts as applied: the socket keeps the order, and bytes in it survive the daemon's
close.  The children are the environment (`Emit`), and `ManagerClosed` is the return of
`mgr.Close`.  `accepting` is the connection acceptLoop is registering, -1 when it has
returned at shutdown.

### Launch

Users run `procs`, `procs kill` and `procs kill --orphans`; daemons are spawned by `procs`.
`pidFile` is the inode the path names (0 when there is none), `fd` the inode a process has
open and `locked` the processes that hold the lock on theirs, so two processes may hold
locks on two inodes of one path.  `sockFile` is the daemon that bound the socket at the path.
Each daemon has at most one child, named after it; `record` is the children file, `unsaved`
the daemons whose source goroutine has a start or an exit still to persist, and `warned` the
orphans that `warnOrphans` has printed.  The deferred calls of `runDaemon` are one action each,
in their order.  `Orderly = TRUE` is the environment of one command at a time, whose timeouts
(5 s for a daemon to start, 10 s for it to end) are long enough; daemons still overlap, since
a kill returns, and the next launch begins, while the killed daemon is at its cleanup.

### Manager

`children` is `m.children` (a project's object, 0 for none); a project that a reload took away
and brought back may have an old object beside its new one, as in the code.  `child` holds the
fields of the objects; `proc` the incarnations, each a process with its `waitDone` and run
goroutine (`run`), numbered as their PIDs.  A command is a record with a program counter: `get` is
`getOrCreate`, `enter` to `launch` are `Child.Start`, `ids` and `stop` the list and the stops of
Stop, StopAll, Restart, Reload and Close, `again` is what Restart does after its sleep, `swap`,
`swapServer` and `seed` the three parts of a reload.  In `stop` a call of `Child.Stop` is in one of
four sets: `todo` has yet to look its child up, `found` to read `c.cmd`, `held` to set "stopping"
(without another look, as in the code), `waits` for the process.  So a StopAll's goroutines are one
command's, in any order.

A step is what the code does between two points where another goroutine can take a mutex.  Restart
makes its child idle whatever it is, Start checks and claims in one critical section, and `run` reads
`c.cmd` and `c.waitDone` when it gets there.  Every project has the policy `never`: automatic
restarts, and with them `stopRequested` and the contexts, are left to `Child`.  `rt` is the PID of a
record; the state in a record is not modelled, since nothing promises it: Stop announces "stopping"
after it has released the lock, and a Start may have announced "running" by then.

What the environment does is in four constants, not in the actions:

* `Alone`: the commands that run with no other beside them.  Nothing in the code keeps Reload and Close
  apart from the rest; the run and the theorems do (and Close is then the last command).
* `Overlap`: whether a Restart may run beside another start of its project.
* `Settles`: the 50 ms of a Restart outlast a run goroutine that has only to clean up after its process
  (as in `Child`).
* `KeepsUp`: the source goroutine never lets the event channel fill up.

`late` is a history variable: the projects last told of by the exit of a child that a reload had
dropped, while the project has another.  An event names the project only, so that the source
goroutine then clears the PID of the new child, until it starts again.

Under the departures below TLC shows what becomes of each property when its constant is the other way.

### LogEntry

Bytes are `LF`, `CR`, ASCII, and the first and following bytes of a code point.  `Feed` is
`LineBuffer.Feed` as a function of what was retained and what was read, its loop (`Loop`) the
function from each position to the loop's state there; the lines it cuts are numbered, and the goroutine then pushes and writes them one by one (`pc`).  `disk` maps 0 to the
current file and i to its i-th backup, each a sequence of line numbers.  Each file call of the
rotation is an action, and may fail; a crash may come between any two.  An `os.Stat` that fails on a
file that is there does not end the rotation (`PassOver`): the file stays, the next rename overwrites
it, and `unseen` records that a backup was passed over.  A write may fail before it writes anything
(`WriteFails`) or after a part of the line (`WriteTorn`); a part counts as the line, in `disk` and in sizes.

### Motions, CursorWalk and LogPanel

Lines and columns count from 0, as in the code; a loop that walks to the first position with
some property is the least element of a set.  A painted row is a piece of a line, and `shown` the
cells painted in reverse; the code's escape sequences appear only where they make an extra row.
Copy mode is a count, an operator, a prefix (`pend`) and a find, dispatched key by key in the order
of `logpanel_motion.go`.

### Sidebar

A *pump* is a command that waits for a token, then reads a snapshot, then is delivered: three
steps, between any of which the store may change, and two pumps run for ever (`Model.Init` starts
two).  A snapshot is any sequence of entries that lists the store in the order of the ids
(`IsSnapshotOf`); there is one.  A configuration has a project (`config.go:147`), so `Order` is not
empty.  It may give a project the empty id, which the code takes for "none selected"; the model leaves
that id out.  `panel` is whose lines the log panel shows and `lastLogGen`, the one generation it remembers.

### Tui

`mail` is the set of messages that commands have posted and `Update` has yet to take; they come
in any order and among keys.  `attach` is the embedded session: `dead` when its child is gone,
`failed` when an error waits for `WatchErrCmd`, `armed` when the detector keeps an Esc back, `stale`
when the window is over and `ticks` when a flush tick is on its way.

## The runs

Every property below is in the `*Properties` module of its component, under a comment that says
what it promises (`KeepsTail` in `RingBuffer`, those of `CursorWalk` beside their references).

| Run | Instance | Shows |
|---|---|---|
| `child_start_stop` | restart `never`, Start and Stop, 2 callers, 2 incarnations, 3 calls | `SingleProcess`, `NoPanic`, `ClosedMeansReaped`, `PidSettles`; under fairness `StopEnds` |
| `child_all_ops` | `on-failure`, all operations, 2 callers, 2 incarnations, 2 calls, reset timer, Restart too quick | `TypeOK`, `WgBalance` |
| `child_crash_loop` | `on-failure`, 1 attempt, Start and Stop, 1 caller, 6 incarnations, 3 calls, processes that end | `RespawnBudget`, `CrashLoopEnds` |
| `child_restart_race` | `never`, Start and Restart, 1 caller | violates `NoPanic` |
| `manager_commands` | 2 projects, 2 command goroutines, 3 child objects, 2 incarnations, an edited configuration, 3 commands and a reload or 2 and three, and a last Close, an event channel of 1; Reload and Close alone, no overlapping Restart, `Settles`, `KeepsUp` | `TypeOK` with no send on the closed channel, `Stoppable`, `Reconciled`, `StoreSettles`, `CloseFinds` |
| `server` | 2 connections, 2 events, event channel of 1, control queue of 2, log queue of 1, ring of 1 | `TypeOK`, `Handoff`, `LogOrder`; under fairness `ShutdownEnds`, `NoGoroutineLeak` |
| `launch_orderly` | 2 users, 4 commands, 3 daemons, 1 crash, orderly | `OneDaemon`, `RecordTrue`; under fairness `NextStartWorks`, `CommandsEnd` |
| `log_entry` | ring of 2, lines of 4 bytes, files of 2 lines, 2 backups, failures, 2 lives | `TypeOK`, `ReadsDoNotMatter`, `DiskHasLatest`, and the refinement `KeepsTail` |
| `cursor_walk` | every buffer of two lines of up to 3 characters, every line of up to 5 brackets | `WordMotions`, `BracketsInnermost`, `WrapKeepsAll` |
| `log_panel` | 2 snapshots, 2 sizes, 2 clicks, 7 keys (`$ v y g 2 w i`), a search, 2 new snapshots, settings or searches | `SelectionShown`, `ClickRoundTrip`, `HitsAreMatches`, `MotionShowsCursor`, `CopiedWasShown` |
| `sidebar` | 2 projects, 2 pumps | `SelectionKept`; under fairness `NoticeShown` |
| `tui` | 12 keys, 2 messages under way before a key may post another | `ModeHasPane`, `EscDelivered`, `QuitDeliberate` |

Why the bounds are enough.  Two callers are what a race needs (the run goroutine is a third
party), and two incarnations let the second Start meet every leftover of the first;
`child_crash_loop` needs Start, Stop and Start again, each with its one permitted respawn, hence
six.  Two commands at once on two projects, with `MaxCommands` 7: a command counts for two, a reload
for one and Close, which is last, for nothing (`Weight`), so that a Start, a reload that takes the
project away, one that brings it back, a second Start and a Close are among the runs; two incarnations
give the process of the old object beside that of the new one, or of a Restart, and three objects one for
each project and the one brought back.  A control queue of two holds the snapshot and one event, so the
next event overflows it; two connections give a take-over and a late unregister; two events give
a ring of one that rolls over, a full event channel and log lines on both sides of a snapshot.
Three daemons give a crash, a successor and its successor.  Four lines fill two files of two and
begin the second rotation, and a second life adds as many again, so that all backups are full and
one is dropped.  The widths of the panel are such that a line just fits, just does not, and is
narrowed by a gutter; `log_panel` has the mouse, the visual selection and the settings with some
of the keys; `log_panel_keys.cfg`, a further configuration of `MCLogPanel`, has 17 keys without the
mouse and the visual selection and checks `MotionShowsCursor`, which holds there too: the product
of all would be too large.  In `Tui` the bound is on what keys post, never on what a message causes.
Deadlock is not checked where calls, commands, events or lines are bounded and may stop for good.

### Where the code departs from what it says

One run is a finding.  `child_restart_race`: **a Restart can crash the daemon** (`child.go:219`),
because an old run goroutine that outlives the 50 ms sleep closes the new incarnation's channel, and
the second close panics.  Each line below shows, in the same models, a departure from a comment or a
doc, or what a property needs of its environment;
TLC stops at a counterexample in each.  Where INVARIANT or PROPERTY is written, the run's configuration
is used with the property named here in the place of its own:

| Configuration (module) | Property that fails | What happens |
|---|---|---|
| `child_stuck_stopping` (`MCChild`) | `StoppingEnds` | a Stop that overlaps the end of the process leaves the child in `stopping` with no process (`child.go:340`); only Restart recovers it |
| `child_stop_lost` (`MCChild`) | `StopSticks` | a Stop that falls into a respawn is lost: Start clears the flag it set (`child.go:115`) |
| `server` (`MCServer`), PROPERTY | `FinalEventsSent` | the final events are not drained to the client at shutdown (`server.go:141`) |
| `launch_together` (`MCLaunch`) | `Reachable` | of two launches at once one unlinks the socket of the daemon the other has just started (`launch.go:126`) |
| `launch_orderly` (`MCLaunch`), PROPERTY | `WarnedOrphansStopped` | `procs kill --orphans` does not stop the orphans the launch warned of: the running daemon removed their record (`subcommands.go:42`) |
| `manager_commands` (`MCManager`), PROPERTY | `StartsAsConfigured` | after a reload with another definition a restart still runs the old one (`manager.go:263`); the run's SYMMETRY goes, as for every PROPERTY |
| `manager_commands` with `Overlap = TRUE` | `Stoppable`, `CloseFinds` | a Start comes between the Stop of a Restart, which found no process, and the end of its sleep: Restart makes the child idle, and its own Start puts a second process where the first one was (`child.go:352`); no Stop finds the first one any more, and Close waits for it (`manager.go:139`) |
| `manager_commands` with `Settles = FALSE` | `Stoppable`, `TypeOK` | a run goroutine that outlives the sleep clears the new `c.cmd`: its process cannot be stopped, or its run waits on a nil command and panics (`child.go:243`, `170`) |
| `manager_commands` with `Alone = {}` | `Stoppable`, `TypeOK` | a reload drops a child that a Start has already got (`manager.go:240`); a Start after Close's wait sends on the closed channel |
| `manager_commands` with `Alone = {"Reload"}` | `CloseFinds` | a Start that comes after StopAll's list of ids starts a process that Close does not stop and waits for (`manager.go:139`) |
| `manager_commands` (`MCManager`), INVARIANT | `StoreFollows` | the exit of a project's old child, reported after the project is back and started, clears the PID of the new one (`runtime.go:121`) |
| `manager_commands` with `KeepsUp = FALSE` | `StoreSettles` | an event dropped from a full channel is never made good (`child.go:101`) |
| `log_entry` (`MCLogEntry`), INVARIANT | `CrLfEndsLine` | a read that ends between CR and LF loses the line (`linebuffer.go:70`) |
| `log_entry` (`MCLogEntry`), INVARIANT | `NoneMissing` | a failing `os.Stat` leaves a backup where the next rename overwrites it: lines are gone between older and newer ones (`rotator.go:109`) |
| `log_panel_match` (`MCLogPanel`) | `MatchShown` | in a wrapped buffer `n` scrolls to the match's line number as if it were its row (`logpanel.go:687`) |
| `sidebar_settles` (`MCSidebar`) | `SidebarSettles` | a change between two subscriptions, or a snapshot overtaken by an older one, is shown only with the next change (`pump.go:24`) |
| `sidebar` (`MCSidebar`), INVARIANT | `PanelShowsSelected` | the panel keeps the lines of another project whose ring has the same generation (`app.go:386`) |
| `tui` (`TuiProperties`), PROPERTY | `PickerChooses` | Enter pressed before git has answered checks out a branch of the list held before, which is not on the screen (`handlers.go:566`) |

## Fairness

`Child`: goroutines that can run do run; a grace period and a backoff end (both are timers);
SIGKILL kills.  Nobody has to call anything and no process has to end by itself, except in
`MortalSpec`, the world of a crash loop, where each process does.  `Manager` states no
fairness: what Close needs to return, that it waits for no process it has not told to end, is the invariant
`CloseFinds`.  `Server`: one weak fairness for all goroutines together: while some goroutine can run,
one does.  That is less than Go's scheduler gives, and enough, because
what they have left to do at shutdown is finite.  `ManagerClosed` is among them because `mgr.Close`
waits for run goroutines that end once their processes do, and StopAll kills those (`CloseFinds`; what
becomes of Close when `Overlap` or `Alone` is otherwise is outside `Server`); clients need
neither read nor go.
`Launch`: processes that can run do run and deadlines pass; users need not type anything and the
TUI need not be quit.  `Sidebar`: the pumps' goroutines run and Bubble Tea delivers each message;
the store need not change and no key need be pressed.

## What is proved

The theorems hold for all values of the constants that satisfy the `ASSUME`s of the modules: the
bounds are natural numbers; callers, users and connections are told apart from the numbers of
goroutines, daemons and "none"; queues, rings and channels have a slot (as their constructors make
sure); `idle` is a state; a configuration names projects only, and has one; no project has the empty
id; an output is a sequence, and there are numbers for the lines it is cut into; lines are
sequences of characters, and a pane has three rows (the TUI refuses a terminal below ten).  Where a theorem needs an environment, that is a hypothesis on the constants which a passing run
satisfies, named below.

**`ChildProofs`**, for every set of callers and operations, every policy and all bounds:

* `TypeCorrect`: `Spec => []TypeOK`.  `TypeOK` is not inductive: `FinalState[why[i]]`,
  `proc[held[c].cmd]` and `proc[own[t]]` are defined only if the goroutine at the label that
  uses them has set its local variable.  The strengthening `Typing` adds that: a goroutine that
  has claimed the child in Start has an incarnation (`OwnKnown`), a run goroutine on its way out
  knows how it ended (`WhyKnown`), and a Stop past its `cmd == nil` check holds a process
  (`HeldKnown`).
* `WaitGroupExact`: `Spec => []WgBalance`.  The count changes when a starting goroutine
  launches run and when a run goroutine ends.  That the launch adds one live goroutine needs the
  run goroutine of that incarnation not to be live yet, which follows from `Claims`: what a
  goroutine between StartEnter and StartLaunch owns has been counted in `spawns`, is owned by
  nobody else, and its run goroutine has not begun.  The lemmas `MoveKeepsBalance` and
  `StillKeepsBalance` say that a step that neither begins nor ends a run goroutine keeps the
  cardinality.
* `RestartsBounded`: `Spec => []RespawnBudget`.  The property counts restarts when no reset timer, no
  Restart and no clean exit refills the budget.  The attempts counted by the policy are at least
  `Spent`, the run goroutines that respawned or are about to, whatever became of them.  For the
  one step that counts, `Budget` must know that a run goroutine asks the policy about a process it
  has waited for (`Waited`), whose exit code stays, and that no incarnation has its process
  replaced (`Unspawned`).

and in its second half, for every number of clients and all bounds, when the policy is `never` and nobody
calls Restart (the environment of the run `child_start_stop`; the run `child_restart_race` shows how
`NoPanic` is lost outside it):

* `OneProcess`: `Spec => []SingleProcess`; `NeverPanics`: `Spec => []NoPanic`; `ClosedTells`:
  `Spec => []ClosedMeansReaped`.  None is inductive alone; they share the invariant `Sole`.
  Its heart is `Exclusive`: at most one goroutine is between the claim of Start and run's last
  `setState`, and while there is one the state is neither idle nor crashed, so the guard of
  Start refuses every other.  The child is handed over three times without a gap: Start
  claims it, StartLaunch gives it to run, RunSet gives it back.  `Own` then says that the `cmd`
  and `waitDone` which run reads again without the lock are still its own, `Watched` that a
  process always has the one goroutine that will wait for it, `ClosedLate` that a channel is
  closed only once its run is past the wait.  Stop changes the state only from a goroutine that
  is not among these and only to "stopping", which the guard refuses too; Restart
  and the automatic restart are outside the argument because they write "idle" themselves.
* `PidTrue`: `Spec => []PidSettles`.  A run that waits has its PID published, and a PID that is
  published belongs to a run that waits or is about to report the exit (`Shown`): events of two
  incarnations do not cross because `Exclusive` lets only one report at a time.

**`LogProofs`**, the ring for every capacity and every set of lines:

* `RingTyping`: `RingSpec => []RingTypeOK`, the inductive invariant: the fields are in range, and the
  slots that `count` takes in from `head` on hold lines, never the zero value of a slot that was
  not written.
* `RingKeepsTail`: `RingSpec => KeepsTail`: the ring implements `LogTail` under the mapping of the tail
  to `Snapshot`.  The heart is `PutAppends`: one push, whichever of `head` and `count` it moves, drops
  the first line if there are `Cap` and appends the new one; `OneTurn` and `SlotIs` do the arithmetic
  of `%` once.  `PushMany` of fewer lines than slots is a loop of such pushes; of as many or more it
  is `LogTail`'s Replace.

and the whole of WriteRaw, for every output, any sizes of lines, files and ring, any number of backups
and lives, and with or without failures:

* `EntryTyping`: `Spec => []TypeOK`.  What `Feed` computes is a loop over the bytes, so this needs an
  induction: `Fed` holds after each byte (no line end is left behind the last cut, what is kept is no
  longer than `MaxLineSize`, every line has taken up a byte).  The library's induction theorems take an
  operator and cannot be used; the lemma `Induction` is about a *set* of numbers and follows from the
  well-foundedness of `<` (`LeastNumber`), and `LoopIs`, that the recursive function exists, from
  `Induction`.  Because every line has taken up a byte, `NumberInv` can bound the lines of all lives.
* `EntryKeepsTail`: `Spec => KeepsTail`: behind the line buffer the ring still implements the tail.
* `FilesHaveLatest`: `Spec => []DiskHasLatest`: the files hold saved lines, in order, whatever fails;
  the latest ones with none missing until a rotation passes over a backup that `os.Stat` did not show
  (`unseen`); and while no rotation has been disturbed (`intact`), a bounded loss only.  A line of which a
  part was written counts as a line.  `SavedInv` says that the lines written ascend and that
  the next one is above them; `HeldInv` that the files hold some of them in order, and, unless `unseen`,
  that none behind a held one is gone (`Latest`) and that the file which the next rename moves to is
  empty (`Emptied`).  `Stacked` is the
  part without which the bound is not inductive: while a rotation is undisturbed every file but one, `Gap`,
  is full, and `pc` and `shift` tell which one it is.  A failure or a crash gives it up for good,
  but not the order, as a rename moves a file next to its own place only.
* `ReadsSplitAlike`: `Spec => [](cut \/ SplitAlike)`, with `cut` that some read ended between CR and LF
  (`CrLfEndsLine` says what is lost then).  A simulation: the loop over the remainder and a new chunk goes
  through the states of the loop over the whole stream, with positions moved by where the remainder
  begins and the earlier lines put before (`From`, `ByteAlike`, `LoopAlike`); the remainder itself
  cuts nothing when it is fed again (`KeptAlike`).
* `ReadsNeverMatter`: `Spec => []ReadsDoNotMatter`, under `WellFed`: the child prints whole code points
  of at most four bytes and a line has room for one (`MCLogEntry` assumes it of its streams too; a
  child may print something else, and a split falls back to the limit then).  `Begins`: after each byte
  every line, and what follows the last one, begins with a byte that begins a code point.

**`ServerProofs`**, for every set of connections, projects and states, every capacity and any number
of events; all three from `ServerKept`, the invariant `ServerInv`:

* `QueuesBounded`: `Spec => []TypeOK`.  The strengthening `Typing` says what each queue may carry (a
  snapshot goes by the control queue only) and that a writer holds an envelope exactly while it
  writes; `Registration` that a connection carries nothing before the source goroutine has
  registered it, and that a reader which reads from an open connection reads from the client.
* `HandoffKept`: `Spec => []Handoff`.  `Mirrored` states the caught-up condition with the envelope in
  the writer's hand already applied, so that the writer's steps leave it alone; dispatching a late
  unregister leaves it alone because of `Registration`.
* `LogsInOrder`: `Spec => []LogOrder`.  `InOrder` gives every line that is under way its place: what
  the client has or a snapshot brings it comes before what the writer holds, that before the log
  queue, that before the event channel, although the snapshot travels by another queue and the log
  queue drops its oldest.  It needs the snapshot to be the first thing sent (`SnapshotFirst`) and the
  rings to hold nothing the channel has yet to give (`Taken`).

**`LaunchProofs`**, for any number of users, commands, daemons and crashes, under `Orderly` (one
command at a time, timeouts long enough; `launch_together` shows what fails without it); from
`LaunchKept`, the invariant `LaunchInv`:

* `OneDaemonKept`: `Spec => []OneDaemon`.  A daemon past `flock` holds the lock on the inode that is
  *now* at the path (`Owned`), and no two processes hold the lock on one inode (`Locks`); hence one
  owner.  Nothing unlinks the path between a daemon's open and its `flock`, because then its launch is
  waiting, it is the only one that starts, and no predecessor is still at its cleanup (`Started`,
  `Probed`): the probe had the lock, and whoever holds it has unlinked.  `Reachable`, about the
  socket, is part of the induction.
* `RecordsTrue`: `Spec => []RecordTrue`.  Needs that a daemon removes the children file only while it
  is the owner, and that one that does not serve yet has neither child nor record (`Recorded`).

**`ManagerProofs`**, for every set of projects, configurations and commands and any number of goroutines
and objects, in the environment `Uncrowded`: nothing runs beside a Reload or Close, no Restart beside
another start of its project, and the sleep of a Restart outlasts a run goroutine whose process is gone
(`manager_commands` is an instance; the departures show what is lost without each of the three).  All from `ManagerKept`, the invariant `ManagerInv`, in three parts:

* `Typing`: `TypeOK` with the types it takes for granted.
* `Control`, about commands: `Solo` is what the environment says of commands side by side; `Closing`
  that no run goroutine is left when Close has waited; `Mapped` and `Reachable` that a process which
  SIGKILL has not been sent to belongs to the child in the map; `Target` that the child a start or
  restart has got is still in the map; `Caught` that a Restart which has read `c.cmd` waits for every
  process of its child, so that making the child idle takes it from nobody; `Reloading` that a reload
  has one child in hand at a time, and has stopped its processes before it drops the entry.
* `Claims`, about children: `Claimed` that at most one starting command or run goroutine has a child,
  which is not idle then, so that the guard of Start refuses every other; `Published` and
  `Courses` that the `cmd` and `waitDone` which a run goroutine reads without being told are still its own.

* `NeverSendsOnClosed`: `Spec => []TypeOK`, which says that nobody sends on a closed event channel or
  waits for a nil command.
* `ProcessesStoppable`: `Spec => []Stoppable`, from `Reachable` and `Claims`.
* `ReloadsReconcile`: `Spec => []Reconciled`, from `Mapped`, `Reachable` and `Reloading`.
* `CloseFindsAll`: `Spec => []CloseFinds`.  `Finding` says where each process that Close has still to see
  end is ahead of it: its project is yet to be looked up, its object to be read, or its process is one that
  Close has read or waits for.  It holds when the list of ids is taken because of `Reachable`, and stays
  because no other command is under way then (`Solo`).
* `StoreShowsChildren`: `Spec => []StoreSettles`, when also the source goroutine keeps up (`KeepsUp`).
  `Followed` states it with the events in the channel already applied (`WillShow`): each incarnation
  between its start and its exit event will be shown if its child is in the map and its project not in
  `late`, and nothing else ever is.  So it is preserved by the source's step as by a child's.

**`TuiProofs`**, for every set of keys and any number of messages, from `KeyboardKept`:

* `ModesHavePanes`: `Spec => []ModeHasPane`; `EscsDelivered`: `Spec => []EscDelivered`.  With the
  types of the session's fields the two are inductive together.
* `QuitsAreDeliberate`: `Spec => QuitDeliberate`, an action property: a quit is armed only by the key
  before (`ArmedByCtrlC`), and every key but Ctrl+C disarms it.

**`SidebarProofs`**, for every set of projects and states and every order of the deliveries:

* `SelectionStays`: `Spec => []SelectionKept`.  `SidebarInv` adds that rows are in the order of the
  ids, in a snapshot under way as in those shown (so each project has one), and that the cursor is on
  a row while there are rows (`OnRow`), which is what makes the first row the chosen one.

**`PanelProofs`**, for every set of logs, pane sizes, clicks, keys and filters and all bounds, H, M
and L and lines that go away under a cursor (`Shrinks`) included; from `PanelHolds`, the invariant
`PanelInv`.  It says of every variable what it holds, and of what was painted that it still fits:
`RowsOK`, each row is a piece of its line of the width it was painted for and begins where the one
before it ended; `WindowOK`, the offset is within these rows; `SelectionOK`, the highlighted cells are
those of the selection as it is now; `HitsOK`, the matches are those of the lines as they are now.  It
is inductive because every handler that changes an end of the selection, the lines, the settings or the
filter paints before it returns, while a resize does not, and so leaves rows of the old width:

* `SelectionIsShown`: `Spec => []SelectionShown`.  The yank and the overlay each cut the lines their own
  way; `OverlayIsYank` says that they cut the same cells.
* `MatchesAreCurrent`: `Spec => []HitsAreMatches`, `TypeOK` included.  What the loop over the lines
  collects is an induction over the lines.
* `MotionsShowCursor`: `Spec => MotionShowsCursor`, an action property.  `CursorOffset` puts the first
  row of the cursor's line into the window wherever the window was (`CursorOffsetShows`), and only
  handlers that call it move the cursor while no button is down.
* `CopiesWhatWasShown`: `Spec => CopiedWasShown`, an action property, from `SelectionOK` before the step.
* `ClicksFindWhatTheyShow`: `Spec => []ClickRoundTrip`.  A click counts the rows of its line above the
  row it hit; `RowStartsAt`, by induction over the rows, says that this number times the width is where
  the row begins.  It needs `PaintedNow`, in the property, for the resize.

and of the pure half, from every place the word motions lead to, for all `Buffers`, sets of sequences of
lines that are not empty:

* `WrappingKeepsAll`: `WalkSpec => []WrapKeepsAll`.
* `WordMotionsMeetReferences`: `WalkSpec => []WordMotions`.  The code steps over a run of one class and
  then over blanks, line by line; the references name the nearest place that begins or ends a run.
* `BracketObjectIsInnermost`: `WalkSpec => []BracketsInnermost`.  The code keeps one stack in one pass;
  the reference counts brackets between two columns.  `Scanned` holds after each column: each bracket on
  the stack has the brackets above it left to close, every open bracket is on the stack, and the pairs
  found are those that balance.  `PairsNest` makes the one that begins last the smallest.

The sequences the code builds in loops are recursive functions in the model; what they compute is shown
by induction over a *set* of numbers (`CountingUp`), as above.

Only model-checked: all liveness, which is out of the prover's reach.  Of what the motions compute,
finds, quotes and ge have no reference of their own and are part of the panel's runs.

## Not modelled

* The codec, configuration parsing, the probes (git, ports, process statistics) and the command
  line: data conversions and reads of the outside, whose results are constants or choices here.  The
  order of frames is in `Server`.
* Presentation: colours, severity, JSON and SQL highlighting, layout, the status bar, toasts, the
  emulator's cells, mouse encoding.  Of JSON pretty-printing `LogPanel` keeps that one line becomes
  several.
* `LineBuffer.Flush`: `Child.run` calls it once, on a line buffer of its own, when the output ends.
* `Child.Resize` and the fan-out of output to a session, which change no state of the child.
* The full-screen attach (`controller_unix.go`), which nothing in `src/` asks for; editing the
  configuration, which hands the terminal to an editor.
* The keys H, M and L of copy mode (in `LogPanel`, but pressed in no run), and log lines that go away under a cursor (`Shrinks`): `hazards`
  says what the code does there.
* Compositions: `Manager` takes the methods of `Child` at the code's steps, with the policy `never`;
  automatic restarts under a manager are beyond what TLC can enumerate with two projects.  What happens
  outside the environment that `Alone`, `Overlap`, `Settles` and `KeepsUp` describe is in the departures
  and in `hazards`, as are the notifications that a client drops when 64 are waiting.
* `log_entry` takes no PushMany, since WriteRaw pushes line by line: that PushMany keeps the tail too is
  proved (`RingKeepsTail`) and not checked by a run.

What would come next: automatic restarts under the manager; Resize and the fan-out of a session; a
reload beside other commands once the code orders them.
