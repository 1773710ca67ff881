---------------------------- MODULE ManagerProofs -----------------------------
(***************************************************************************)
(* Theorems about the manager (module Manager), for every set of projects, *)
(* configurations and commands, in the environment Uncrowded.              *)
(***************************************************************************)
EXTENDS ManagerProperties, SequenceTheorems, FiniteSetTheorems, TLAPS

\* The environment: a reload and Close run by themselves, no Restart runs beside another start of
\* its project, and its sleep is long enough for a run goroutine whose process is gone.
Uncrowded == {"Reload", "Close"} \subseteq Alone /\ Overlap = FALSE /\ Settles

Starters == {"Start", "Restart", "StartGroup"}
AllOps == Starters \cup {"Stop", "StopAll", "Reload", "Close"}
StartLabels == {"get", "enter", "spawn", "running", "launch", "abort"}
Labels == StartLabels \cup {"ready", "again", "ids", "stop", "wait", "close", "swap", "swapServer", "seed"}
States == {"idle", "starting", "running", "stopping"}
OsStates == {"none", "alive", "killed", "dead", "reaped"}
RunStates == {"none", "enter", "read", "exited", "clear", "set", "return", "done"}

Command == [op : AllOps \cup {"none"}, pc : Labels, list : Seq(Projects),
            obj : Objects \cup {0}, inc : Inc \cup {0}, todo : SUBSET Projects,
            found : SUBSET Objects, held : SUBSET Inc, waits : SUBSET Inc, gone : SUBSET Objects,
            new : Configs, seed : SUBSET Projects, drop : SUBSET Projects]
Definitions == {0} \cup {c.projects[p] : c \in Configs, p \in Projects}
Children == [id : Projects \cup {"none"}, def : Definitions, state : States,
             cmd : Inc \cup {0}, waitDone : Inc \cup {0}]
Processes == [obj : Objects \cup {0}, os : OsStates, run : RunStates, serves : Inc \cup {0}, done : BOOLEAN]
PidEvents == [id : Projects, pid : Inc \cup {0}]

\* TypeOK, with the types of what it takes for granted.
Typing ==
  /\ TypeOK
  /\ cmd \in [Cmds -> Command] /\ child \in [Objects -> Children] /\ proc \in [Inc -> Processes]
  /\ events \in Seq(PidEvents)
  /\ closed \in BOOLEAN /\ open \in BOOLEAN

-----------------------------------------------------------------------------
(* Commands *)

\* Where a command of each kind can be.
OpOf(r) ==
  /\ r.pc = "ready" <=> r.op = "none"
  /\ r.pc \in StartLabels => r.op \in Starters
  /\ r.pc = "again" => r.op = "Restart" /\ r.held = {} /\ r.waits = {}
  /\ r.pc = "ids" => r.op \in {"StopAll", "Close"}
  /\ r.pc = "stop" => r.op \notin {"Start", "StartGroup"}
  /\ r.pc \in {"wait", "close"} => r.op = "Close"
  /\ r.pc \in {"swap", "swapServer", "seed"} => r.op = "Reload"
  /\ r.op \in Starters => r.list # <<>>
  /\ r.gone # {} => r.op = "Reload"

\* A reload or Close has no command beside it, a Restart no other start of its project.
Solo ==
  /\ \A g, h \in Cmds : cmd[g].op \in {"Reload", "Close"} /\ cmd[h].op # "none" => g = h
  /\ \A g, h \in Cmds : cmd[g].op = "Restart" /\ cmd[h].op \in Starters /\ g # h
                        => \A p \in ToSet(cmd[g].list) : p \notin ToSet(cmd[h].list)

\* Close runs after the flag is set; once it has waited no run goroutine is left, and after it nothing runs.
Closing ==
  /\ \A g \in Cmds : cmd[g].op # "none" /\ closed => cmd[g].op = "Close"
  /\ \A g \in Cmds : cmd[g].op = "Close" => closed
  /\ \A g \in Cmds : cmd[g].pc = "close" => \A i \in Inc : ~Running(i)
  /\ ~open => closed /\ (\A g \in Cmds : cmd[g].op = "none") /\ \A i \in Inc : ~Running(i)

-----------------------------------------------------------------------------
(* The map and the objects *)

\* An object has a number of its own.
Numbered == \E n \in 0 .. MaxChildren : Created = 1 .. n

\* What a reload's call of Stop is about: the child found, read, told to stop, or stopped.
Hands(r) == r.found \cup r.gone \cup {proc[i].obj : i \in r.held \cup r.waits}

\* A reload is to take p out of the map.
Dropping(p) ==
  \E g \in Cmds : /\ cmd[g].op = "Reload" /\ cmd[g].pc = "stop"
                  /\ p \in cmd[g].todo \/ children[p] \in Hands(cmd[g])

\* The map holds a project's own child, and a project of the configuration.
Mapped ==
  \A p \in Projects : children[p] # 0 =>
    child[children[p]].id = p /\ (p \in DOMAIN cfg.projects \/ Dropping(p))

\* A process that SIGKILL has not been sent to belongs to a child in the map.
Reachable == \A i \in Inc : Alive(i) => children[Of(i)] = proc[i].obj

\* The child that a start or a restart has got is the one in the map.
Target(r) ==
  r.pc \in StartLabels \ {"get"} \/ r.pc = "again" \/ (r.pc = "stop" /\ r.op = "Restart") =>
    r.obj \in Objects /\ child[r.obj].id = Head(r.list) /\ children[Head(r.list)] = r.obj

\* Once a Restart has read the cmd of its child, no other process of the child is left but by SIGKILL.
Caught(r) ==
  /\ \A i \in r.held \cup r.waits : proc[i].os # "none"
  /\ r.op = "Restart" /\ (r.pc = "again" \/ (r.pc = "stop" /\ r.obj \notin r.found)) =>
       \A i \in Inc : Alive(i) /\ proc[i].obj = r.obj => i \in r.held \cup r.waits

\* A reload takes one child at a time, whose project is no longer configured, and has stopped all
\* processes of the child when it drops the entry.
Reloading(r) ==
  r.op = "Reload" =>
    /\ r.pc = "swap" => r.todo = {} /\ r.found = {} /\ r.gone = {} /\ r.held = {} /\ r.waits = {}
    /\ r.pc # "swap" => cfg = r.new /\ \A p \in r.drop : p \notin DOMAIN cfg.projects
    /\ r.todo \subseteq r.drop
    /\ \A o \in Hands(r) : /\ o \in Objects /\ child[o].id \in r.drop \ r.todo /\ children[child[o].id] = o
                           /\ o \in r.found \/ \A i \in Inc : Alive(i) /\ proc[i].obj = o
                                                              => i \in r.held \cup r.waits
    /\ (\A i, j \in r.held \cup r.waits : i = j) /\ r.held \cap r.waits = {}
    /\ \A o, q \in Hands(r) : o = q
    /\ r.found = {} \/ r.held \cup r.waits = {}
    /\ r.gone = {} \/ (r.found = {} /\ r.held \cup r.waits = {})

Commands == \A g \in Cmds : OpOf(cmd[g]) /\ Target(cmd[g]) /\ Caught(cmd[g]) /\ Reloading(cmd[g])

\* The server has the manager's configuration, but for the stops of a reload.
Served == srvCfg = cfg \/ \E g \in Cmds : cmd[g].op = "Reload" /\ cmd[g].pc \in {"stop", "swapServer"}

Control == Solo /\ Closing /\ Numbered /\ Mapped /\ Reachable /\ Commands /\ Served

-----------------------------------------------------------------------------
(* Processes *)

\* Who has claimed a child: a start, until it hands over to the run goroutine, until that sets the state.
Starting(g) == cmd[g].pc \in {"spawn", "running", "launch"}
Serving(i) == proc[i].run \in {"enter", "read", "exited", "clear", "set"}

\* A child is claimed by one of them, and is not idle then.
Claimed ==
  /\ \A g, h \in Cmds : Starting(g) /\ Starting(h) /\ cmd[g].obj = cmd[h].obj => g = h
  /\ \A i, j \in Inc : Serving(i) /\ Serving(j) /\ proc[i].obj = proc[j].obj => i = j
  /\ \A g \in Cmds, i \in Inc : Starting(g) /\ Serving(i) => cmd[g].obj # proc[i].obj
  /\ \A g \in Cmds : Starting(g) => child[cmd[g].obj].state # "idle"
  /\ \A i \in Inc : Serving(i) => child[proc[i].obj].state # "idle"

\* A start has made its process the child's.
Published ==
  \A g \in Cmds : cmd[g].pc \in {"running", "launch"} =>
    LET i == cmd[g].inc IN
    /\ i \in Inc /\ proc[i].obj = cmd[g].obj /\ proc[i].os # "none" /\ proc[i].run = "none"
    /\ child[cmd[g].obj].cmd = i /\ child[cmd[g].obj].waitDone = i

\* How far the process and the run goroutine of an incarnation have come.
Courses ==
  \A i \in Inc :
    /\ proc[i].os = "none" => proc[i].run = "none"
    /\ proc[i].os # "none" => proc[i].obj \in Objects /\ child[proc[i].obj].id # "none"
    /\ proc[i].os # "none" /\ proc[i].run = "none" =>
         \E g \in Cmds : cmd[g].pc \in {"running", "launch"} /\ cmd[g].inc = i
    /\ proc[i].run \in {"none", "enter", "read"} => ~proc[i].done
    /\ proc[i].run \notin {"none", "enter", "read"} => proc[i].os = "reaped"
    /\ proc[i].run \in {"enter", "read", "exited", "clear"} => child[proc[i].obj].cmd = i
    /\ proc[i].run \in {"enter", "read"} => child[proc[i].obj].waitDone = i
    /\ proc[i].run = "read" => proc[i].serves = i

\* A child's cmd is one of its processes.
Owned == \A o \in Objects : child[o].cmd # 0 => proc[child[o].cmd].os # "none" /\ proc[child[o].cmd].obj = o

Claims == Claimed /\ Published /\ Courses /\ Owned
ManagerInv == Typing /\ Control /\ Claims

-----------------------------------------------------------------------------
(* Records: what an update leaves of a command, of a child, of a process and of the channel *)

\* A goroutine that has no command.
LEMMA IdleIs ==
  ASSUME Configs # {}
  PROVE  /\ Idle \in Command /\ Idle.op = "none" /\ Idle.pc = "ready" /\ Idle.list = <<>> /\ Idle.obj = 0
         /\ Idle.inc = 0 /\ Idle.todo = {} /\ Idle.found = {} /\ Idle.held = {} /\ Idle.waits = {}
         /\ Idle.gone = {} /\ Idle.drop = {}
<1>1. (CHOOSE c \in Configs : TRUE) \in Configs
  OBVIOUS
<1>2. <<>> \in Seq(Projects)
  OBVIOUS
<1> QED BY <1>1, <1>2 DEF Idle, Command, Labels

\* A command that only goes on to another place.
Goes(r, s, l) ==
  /\ s \in Command /\ s.pc = l /\ s.op = r.op /\ s.list = r.list /\ s.obj = r.obj /\ s.inc = r.inc
  /\ s.todo = r.todo /\ s.found = r.found /\ s.held = r.held /\ s.waits = r.waits /\ s.gone = r.gone
  /\ s.new = r.new /\ s.drop = r.drop

\* It is the record with another pc.
LEMMA PcSet ==
  ASSUME NEW r \in Command, NEW l \in Labels
  PROVE  Goes(r, [r EXCEPT !.pc = l], l)
  BY DEF Command, Goes

\* A child in another state.
Becomes(o, x) ==
  /\ child' \in [Objects -> Children]
  /\ \A q \in Objects :
       /\ child'[q].id = child[q].id /\ child'[q].def = child[q].def
       /\ child'[q].cmd = child[q].cmd /\ child'[q].waitDone = child[q].waitDone
       /\ child'[q].state = IF q = o THEN x ELSE child[q].state

\* It is what setState makes of it.
LEMMA StateSet ==
  ASSUME child \in [Objects -> Children], NEW o \in Objects, NEW x \in States,
         child' = [child EXCEPT ![o].state = x]
  PROVE  Becomes(o, x)
<1>1. child[o] \in Children
  OBVIOUS
<1>2. LET c == [child[o] EXCEPT !.state = x] IN
      /\ c \in Children /\ c.id = child[o].id /\ c.def = child[o].def /\ c.cmd = child[o].cmd
      /\ c.waitDone = child[o].waitDone /\ c.state = x
  BY <1>1 DEF Children
<1>3. \A q \in Objects : child'[q] = IF q = o THEN [child[o] EXCEPT !.state = x] ELSE child[q]
  OBVIOUS
<1> QED BY <1>2, <1>3 DEF Becomes

\* A process that comes into another state.
LEMMA OsSet ==
  ASSUME proc \in [Inc -> Processes], NEW i \in Inc, NEW x \in OsStates,
         proc' = [proc EXCEPT ![i].os = x]
  PROVE  /\ proc' \in [Inc -> Processes]
         /\ \A j \in Inc :
              /\ proc'[j].obj = proc[j].obj /\ proc'[j].run = proc[j].run
              /\ proc'[j].serves = proc[j].serves /\ proc'[j].done = proc[j].done
              /\ proc'[j].os = IF j = i THEN x ELSE proc[j].os
<1>1. proc[i] \in Processes
  OBVIOUS
<1>2. LET c == [proc[i] EXCEPT !.os = x] IN
      /\ c \in Processes /\ c.obj = proc[i].obj /\ c.run = proc[i].run /\ c.serves = proc[i].serves
      /\ c.done = proc[i].done /\ c.os = x
  BY <1>1 DEF Processes
<1>3. \A j \in Inc : proc'[j] = IF j = i THEN [proc[i] EXCEPT !.os = x] ELSE proc[j]
  OBVIOUS
<1> QED BY <1>2, <1>3

\* A run goroutine that goes on.
LEMMA RunSetTo ==
  ASSUME proc \in [Inc -> Processes], NEW i \in Inc, NEW x \in RunStates,
         proc' = [proc EXCEPT ![i].run = x]
  PROVE  /\ proc' \in [Inc -> Processes]
         /\ \A j \in Inc :
              /\ proc'[j].obj = proc[j].obj /\ proc'[j].os = proc[j].os
              /\ proc'[j].serves = proc[j].serves /\ proc'[j].done = proc[j].done
              /\ proc'[j].run = IF j = i THEN x ELSE proc[j].run
<1>1. proc[i] \in Processes
  OBVIOUS
<1>2. LET c == [proc[i] EXCEPT !.run = x] IN
      /\ c \in Processes /\ c.obj = proc[i].obj /\ c.os = proc[i].os /\ c.serves = proc[i].serves
      /\ c.done = proc[i].done /\ c.run = x
  BY <1>1 DEF Processes
<1>3. \A j \in Inc : proc'[j] = IF j = i THEN [proc[i] EXCEPT !.run = x] ELSE proc[j]
  OBVIOUS
<1> QED BY <1>2, <1>3

\* Child.emit keeps the channel within its capacity, and does not panic on an open one.
LEMMA EmitKeeps ==
  ASSUME events \in Seq(PidEvents), Len(events) <= EventCap, ~panicked, open,
         NEW p \in Projects, NEW i \in Inc \cup {0}, Emit(p, i)
  PROVE  /\ events' \in Seq(PidEvents) /\ Len(events') <= EventCap /\ panicked' = FALSE
         /\ KeepsUp => events' = Append(events, [id |-> p, pid |-> i])
<1> DEFINE e == [id |-> p, pid |-> i]
<1>1. EventCap \in Nat
  BY ManagerAssumption
<1>2. e \in PidEvents
  BY DEF PidEvents
<1>3. panicked' = (panicked \/ ~open) /\
      \/ open /\ Len(events) < EventCap /\ events' = Append(events, e)
      \/ (~open \/ ~KeepsUp) /\ events' = events
  BY DEF Emit
<1> HIDE DEF e
<1>4. /\ Append(events, e) \in Seq(PidEvents) /\ Len(Append(events, e)) = Len(events) + 1 /\ Len(events) \in Nat
  BY <1>2
<1>5. events' \in Seq(PidEvents) /\ Len(events') <= EventCap
  BY <1>1, <1>3, <1>4
<1>6. panicked' = FALSE /\ (KeepsUp => events' = Append(events, e))
  BY <1>3
<1> QED BY <1>5, <1>6 DEF e

\* The typing, put together.
LEMMA TypingFrom ==
  ASSUME panicked' = FALSE, cfg' \in Configs, srvCfg' \in Configs,
         children' \in [Projects -> Objects \cup {0}], child' \in [Objects -> Children],
         proc' \in [Inc -> Processes], cmd' \in [Cmds -> Command],
         events' \in Seq(PidEvents), Len(events') <= EventCap,
         rt' \in [Projects -> Inc \cup {0, Absent}], begun' \in 0 .. MaxCommands,
         closed' \in BOOLEAN, open' \in BOOLEAN
  PROVE  Typing'
<1>1. \A o \in Objects : child'[o] \in Children
  OBVIOUS
<1>2. \A i \in Inc : proc'[i] \in Processes
  OBVIOUS
<1>3. \A o \in Objects :
        /\ child'[o].id \in Projects \cup {"none"}
        /\ child'[o].state \in {"idle", "starting", "running", "stopping"}
        /\ child'[o].cmd \in Inc \cup {0} /\ child'[o].waitDone \in Inc \cup {0}
  BY <1>1 DEF Children, States
<1>4. \A i \in Inc :
        /\ proc'[i].obj \in Objects \cup {0} /\ proc'[i].serves \in Inc \cup {0}
        /\ proc'[i].os \in {"none", "alive", "killed", "dead", "reaped"}
        /\ proc'[i].run \in {"none", "enter", "read", "exited", "clear", "set", "return", "done"}
  BY <1>2 DEF Processes, OsStates, RunStates
<1> QED BY <1>3, <1>4 DEF Typing, TypeOK

-----------------------------------------------------------------------------
(* Steps of a command *)

\* The goroutine g goes on with the command r; the others stay where they are.
Advances(g, r) == /\ r \in Command /\ cmd' \in [Cmds -> Command] /\ cmd'[g] = r
                  /\ \A h \in Cmds \ {g} : cmd'[h] = cmd[h]

\* A step that gives g the command r.
LEMMA AdvancesTo ==
  ASSUME Typing, NEW g \in Cmds, NEW r \in Command, cmd' = [cmd EXCEPT ![g] = r]
  PROVE  Advances(g, r)
  BY DEF Typing, Advances

\* What holds of a command under way, and when none may be beside it.
LEMMA CommandIs ==
  ASSUME ManagerInv, NEW g \in Cmds
  PROVE  /\ cmd[g] \in Command /\ OpOf(cmd[g]) /\ Target(cmd[g]) /\ Caught(cmd[g]) /\ Reloading(cmd[g])
         /\ cmd[g].op \in Starters => ~closed /\ open /\ \A h \in Cmds : cmd[h].op \notin {"Reload", "Close"}
         /\ cmd[g].op # "none" => open
         /\ Typing
<1>1. cmd[g] \in Command /\ OpOf(cmd[g]) /\ Target(cmd[g]) /\ Caught(cmd[g]) /\ Reloading(cmd[g])
  BY DEF ManagerInv, Control, Typing, Commands
<1>2. cmd[g].op # "none" => open
  BY DEF ManagerInv, Control, Closing
<1>3. cmd[g].op \in Starters => ~closed /\ \A h \in Cmds : cmd[h].op \notin {"Reload", "Close"}
  BY DEF ManagerInv, Control, Closing, Solo, Starters
<1> QED BY <1>1, <1>2, <1>3 DEF Starters, ManagerInv

\* Children stay what they are, and no process is new or comes back to life.
Steady ==
  /\ \A o \in Objects : child'[o].id = child[o].id
  /\ \A i \in Inc :
       /\ proc'[i].obj = proc[i].obj
       /\ proc'[i].os = "none" <=> proc[i].os = "none"
       /\ proc'[i].os = "alive" => proc[i].os = "alive"
       /\ closed /\ Running(i)' => Running(i)

\* A command that does not move itself stays what it should be.
LEMMA CommandStays ==
  ASSUME Typing, Steady, UNCHANGED <<cfg, children>>, NEW r \in Command
  PROVE  /\ Target(r) => Target(r)'
         /\ Caught(r) => Caught(r)'
         /\ Reloading(r) => Reloading(r)'
         /\ Hands(r)' = Hands(r)
<1>1. r.held \subseteq Inc /\ r.waits \subseteq Inc /\ r.found \subseteq Objects /\ r.gone \subseteq Objects
  BY DEF Command
<1>2. Hands(r)' = Hands(r)
  BY <1>1 DEF Hands, Steady
<1>3. Target(r) => Target(r)'
  BY DEF Target, Steady
<1>4. Caught(r) => Caught(r)'
  BY <1>1 DEF Caught, Steady, Alive
<1>5. Reloading(r) => Reloading(r)'
  BY <1>2 DEF Reloading, Steady, Alive
<1> QED BY <1>2, <1>3, <1>4, <1>5

\* A step of a command that creates no process and takes nothing from the map keeps the control,
\* if the command itself is as it should be where it gets to.
LEMMA MoveKeeps ==
  ASSUME ManagerInv, NEW g \in Cmds, NEW r \in Command, Advances(g, r), Steady,
         cmd[g].op # "none", r.op \in {cmd[g].op, "none"},
         r.op \in Starters => ToSet(r.list) \subseteq ToSet(cmd[g].list),
         OpOf(r), Target(r), Caught(r)', Reloading(r)',
         r.pc = "close" => \A i \in Inc : ~Running(i)',
         cmd[g].op = "Reload" /\ cmd[g].pc = "stop" =>
           \A p \in Projects : children[p] # 0 /\ (p \in cmd[g].todo \/ children[p] \in Hands(cmd[g]))
             => r.op = "Reload" /\ r.pc = "stop" /\ (p \in r.todo \/ children[p] \in Hands(r)'),
         UNCHANGED <<cfg, children, closed, open>>, Served'
  PROVE  Control'
<1>1. \A h \in Cmds : cmd'[h] = IF h = g THEN r ELSE cmd[h]
  BY DEF Advances
<1>2. Typing /\ \A h \in Cmds : /\ cmd[h] \in Command /\ OpOf(cmd[h]) /\ Target(cmd[h])
                                /\ Caught(cmd[h]) /\ Reloading(cmd[h])
  BY CommandIs
<1>3. Solo'
  <2>1. ASSUME NEW h \in Cmds, NEW k \in Cmds, cmd'[h].op \in {"Reload", "Close"}, cmd'[k].op # "none"
        PROVE  h = k
    BY <1>1, <2>1 DEF ManagerInv, Control, Solo
  <2>2. ASSUME NEW h \in Cmds, NEW k \in Cmds, cmd'[h].op = "Restart", cmd'[k].op \in Starters, h # k,
               NEW p \in ToSet(cmd'[h].list)
        PROVE  p \notin ToSet(cmd'[k].list)
    BY <1>1, <2>2 DEF ManagerInv, Control, Solo, Starters
  <2> QED BY <2>1, <2>2 DEF Solo
<1>4. Closing'
  <2>1. \A h \in Cmds : cmd'[h].op # "none" => cmd[h].op = cmd'[h].op
    BY <1>1
  <2>2. open /\ open' /\ closed' = closed
    BY CommandIs
  <2>3. ASSUME NEW h \in Cmds, cmd'[h].pc = "close" PROVE \A i \in Inc : ~Running(i)'
    <3>1. CASE h = g
      BY <1>1, <2>3, <3>1
    <3>2. CASE h # g
      <4>1. cmd[h].pc = "close"
        BY <1>1, <2>3, <3>2
      <4>2. cmd[h].op = "Close" /\ closed /\ \A i \in Inc : ~Running(i)
        BY <1>2, <4>1 DEF ManagerInv, Control, Closing, OpOf
      <4> QED BY <4>2 DEF Steady
    <3> QED BY <3>1, <3>2
  <2> QED BY <2>1, <2>2, <2>3 DEF ManagerInv, Control, Closing
<1>5. Numbered'
  BY DEF ManagerInv, Control, Numbered, Created, Steady
<1>6. Mapped'
  <2>1. ASSUME NEW p \in Projects, children[p] # 0, Dropping(p) PROVE Dropping(p)'
    <3>1. PICK h \in Cmds : /\ cmd[h].op = "Reload" /\ cmd[h].pc = "stop"
                            /\ p \in cmd[h].todo \/ children[p] \in Hands(cmd[h])
      BY <2>1 DEF Dropping
    <3>2. CASE h = g
      BY <1>1, <2>1, <3>1, <3>2 DEF Dropping, Hands
    <3>3. CASE h # g
      <4>1. cmd'[h] = cmd[h] /\ cmd[h].held \subseteq Inc /\ cmd[h].waits \subseteq Inc
        BY <1>1, <1>2, <3>3 DEF Command
      <4>2. Hands(cmd[h])' = Hands(cmd[h])
        BY <4>1 DEF Hands, Steady
      <4> QED BY <3>1, <4>1, <4>2 DEF Dropping
    <3> QED BY <3>2, <3>3
  <2>2. \A p \in Projects : children[p] # 0 => children[p] \in Objects
    BY <1>2 DEF Typing, TypeOK
  <2> QED BY <2>1, <2>2 DEF ManagerInv, Control, Mapped, Steady
<1>7. Reachable'
  <2>1. ASSUME NEW i \in Inc, Alive(i)' PROVE children[child'[proc'[i].obj].id] = proc'[i].obj
    <3>1. Alive(i) /\ proc'[i].obj = proc[i].obj /\ proc[i].obj \in Objects
      BY <2>1 DEF Alive, Steady, ManagerInv, Claims, Courses
    <3> QED BY <3>1 DEF ManagerInv, Control, Reachable, Of, Steady
  <2> QED BY <2>1 DEF Reachable, Of
<1>8. Commands'
  <2>1. ASSUME NEW h \in Cmds PROVE OpOf(cmd[h])' /\ Target(cmd[h])' /\ Caught(cmd[h])' /\ Reloading(cmd[h])'
    <3>1. CASE h = g
      <4>1. cmd'[h] = r
        BY <1>1, <3>1
      <4>2. OpOf(cmd[h])' /\ Target(cmd[h])'
        BY <4>1 DEF OpOf, Target, Steady
      <4>3. Caught(cmd[h])'
        BY <4>1 DEF Caught
      <4>4. Reloading(cmd[h])'
        BY <4>1 DEF Reloading, Hands
      <4> QED BY <4>2, <4>3, <4>4
    <3>2. CASE h # g
      <4>1. PICK s \in Command : s = cmd[h] /\ s = cmd'[h]
        BY <1>1, <1>2, <3>2
      <4>2. OpOf(s) /\ Target(s)' /\ Caught(s)' /\ Reloading(s)'
        BY <1>2, <4>1, CommandStays
      <4> QED BY <4>1, <4>2 DEF OpOf, Target, Caught, Reloading, Hands
    <3> QED BY <3>1, <3>2
  <2> QED BY <2>1 DEF Commands
<1> QED BY <1>3, <1>4, <1>5, <1>6, <1>7, <1>8 DEF Control

\* A step beside the commands.
LEMMA StayKeeps ==
  ASSUME ManagerInv, Steady, UNCHANGED <<cmd, cfgVars, children, closed, open>>,
         \A i \in Inc : Running(i)' => Running(i)
  PROVE  Control'
<1>0. \A h \in Cmds : /\ cmd[h] \in Command /\ OpOf(cmd[h]) /\ Target(cmd[h])
                      /\ Caught(cmd[h]) /\ Reloading(cmd[h])
  BY CommandIs
<1>1. Typing /\ \A h \in Cmds : /\ cmd[h] \in Command /\ OpOf(cmd[h]) /\ Target(cmd[h])
                                /\ Caught(cmd[h]) /\ Reloading(cmd[h])
  BY <1>0 DEF ManagerInv
<1>2. Solo' /\ Served'
  BY DEF ManagerInv, Control, Solo, Served, cfgVars
<1>3. Closing'
  BY DEF ManagerInv, Control, Closing
<1>4. Numbered'
  BY DEF ManagerInv, Control, Numbered, Created, Steady
<1>5. Mapped'
  <2>1. \A h \in Cmds : cmd[h].held \subseteq Inc /\ cmd[h].waits \subseteq Inc
    BY <1>1 DEF Command
  <2>2. \A h \in Cmds : Hands(cmd[h])' = Hands(cmd[h])
    BY <2>1 DEF Hands, Steady
  <2>3. \A p \in Projects : Dropping(p)' <=> Dropping(p)
    BY <2>2 DEF Dropping
  <2>4. \A p \in Projects : children[p] # 0 => children[p] \in Objects
    BY <1>1 DEF Typing, TypeOK
  <2> QED BY <2>3, <2>4 DEF ManagerInv, Control, Mapped, Steady, cfgVars
<1>6. Reachable'
  <2>1. ASSUME NEW i \in Inc, Alive(i)' PROVE children[child'[proc'[i].obj].id] = proc'[i].obj
    <3>1. Alive(i) /\ proc'[i].obj = proc[i].obj /\ proc[i].obj \in Objects
      BY <2>1 DEF Alive, Steady, ManagerInv, Claims, Courses
    <3> QED BY <3>1 DEF ManagerInv, Control, Reachable, Of, Steady
  <2> QED BY <2>1 DEF Reachable, Of
<1>7. Commands'
  <2>1. ASSUME NEW h \in Cmds PROVE OpOf(cmd[h])' /\ Target(cmd[h])' /\ Caught(cmd[h])' /\ Reloading(cmd[h])'
    <3>1. PICK s \in Command : s = cmd[h] /\ s = cmd'[h]
      BY <1>1
    <3>2. OpOf(s) /\ Target(s)' /\ Caught(s)' /\ Reloading(s)'
      BY <1>1, <3>1, CommandStays DEF cfgVars
    <3> QED BY <3>1, <3>2 DEF OpOf, Target, Caught, Reloading, Hands
  <2> QED BY <2>1 DEF Commands
<1> QED BY <1>2, <1>3, <1>4, <1>5, <1>6, <1>7 DEF Control

\* Nobody has claimed the child.
Free(o) == /\ \A h \in Cmds : Starting(h) => cmd[h].obj # o
           /\ \A i \in Inc : Serving(i) => proc[i].obj # o

\* A step of a command that has claimed no child keeps the claims, if it makes none idle but a free one.
LEMMA ClaimsStay ==
  ASSUME ManagerInv, NEW g \in Cmds, NEW r \in Command, Advances(g, r),
         ~Starting(g), r.pc \notin {"spawn", "running", "launch"},
         \A i \in Inc : /\ proc'[i].obj = proc[i].obj /\ proc'[i].run = proc[i].run
                        /\ proc'[i].serves = proc[i].serves /\ proc'[i].done = proc[i].done
                        /\ proc'[i].os = proc[i].os \/ (proc[i].os = "alive" /\ proc'[i].os = "killed"),
         \A o \in Objects : /\ child'[o].id = child[o].id /\ child'[o].cmd = child[o].cmd
                            /\ child'[o].waitDone = child[o].waitDone
                            /\ child'[o].state = "idle" => child[o].state = "idle" \/ Free(o)
  PROVE  Claims'
<1>1. \A h \in Cmds : /\ cmd'[h] = IF h = g THEN r ELSE cmd[h]
                      /\ Starting(h)' => h # g /\ Starting(h) /\ cmd'[h] = cmd[h]
  BY DEF Advances, Starting
<1>2. \A i \in Inc : (Serving(i)' <=> Serving(i)) /\ (Serving(i) => proc[i].obj \in Objects)
  BY DEF Serving, ManagerInv, Claims, Courses
<1>3. \A h \in Cmds : Starting(h) => cmd[h].obj \in Objects
  BY CommandIs DEF Starting, Target, StartLabels
<1>4. Claimed'
  BY <1>1, <1>2, <1>3 DEF ManagerInv, Claims, Claimed, Free
<1>5. Published'
  BY <1>1, <1>3 DEF ManagerInv, Claims, Published, Starting
<1>6. Courses'
  <2>1. \A h \in Cmds : cmd[h].pc \in {"running", "launch"} => cmd'[h] = cmd[h]
    BY <1>1 DEF Starting
  <2> QED BY <2>1 DEF ManagerInv, Claims, Courses
<1>7. Owned'
  <2>1. \A o \in Objects : child[o] \in Children
    BY DEF ManagerInv, Typing
  <2>2. \A o \in Objects : child[o].cmd \in Inc \cup {0}
    BY <2>1 DEF Children
  <2> QED BY <2>2 DEF ManagerInv, Claims, Owned
<1> QED BY <1>4, <1>5, <1>6, <1>7 DEF Claims

\* A goroutine without a command is as it should be.
LEMMA IdleFits ==
  ASSUME ManagerInv
  PROVE  /\ Idle \in Command /\ OpOf(Idle) /\ Target(Idle) /\ Caught(Idle) /\ Reloading(Idle)
         /\ Idle.op = "none" /\ Idle.pc = "ready"
<1>1. Configs # {}
  BY DEF ManagerInv, Typing, TypeOK
<1> QED BY <1>1, IdleIs DEF OpOf, Target, Caught, Reloading, StartLabels, Starters, AllOps, Hands

\* A step of a command that changes nothing else than the server's configuration or the store.
LEMMA TurnKeeps ==
  ASSUME ManagerInv, NEW g \in Cmds, NEW r \in Command, cmd' = [cmd EXCEPT ![g] = r],
         ~Starting(g), r.pc \notin {"spawn", "running", "launch"},
         cmd[g].op # "none", r.op \in {cmd[g].op, "none"},
         r.op \in Starters => ToSet(r.list) \subseteq ToSet(cmd[g].list),
         OpOf(r), Target(r), Caught(r), Reloading(r),
         r.pc = "close" => \A i \in Inc : ~Running(i),
         cmd[g].op = "Reload" /\ cmd[g].pc = "stop" =>
           \A p \in Projects : children[p] # 0 /\ (p \in cmd[g].todo \/ children[p] \in Hands(cmd[g]))
             => r.op = "Reload" /\ r.pc = "stop" /\ (p \in r.todo \/ children[p] \in Hands(r)),
         UNCHANGED <<cfg, objVars, closed, open, events, begun>>, panicked' = FALSE,
         srvCfg' \in Configs, rt' \in [Projects -> Inc \cup {0, Absent}], Served'
  PROVE  ManagerInv'
<1> USE DEF objVars
<1>1. Typing
  BY DEF ManagerInv
<1>2. Advances(g, r)
  BY <1>1, AdvancesTo
<1>3. Typing'
  BY <1>1, <1>2, TypingFrom DEF Typing, TypeOK, Advances
<1>4. Steady
  BY DEF Steady, Running
<1>5. Caught(r)' /\ Reloading(r)' /\ Hands(r)' = Hands(r)
  BY <1>1, <1>4, CommandStays
<1>6. \A i \in Inc : Running(i)' <=> Running(i)
  BY DEF Running
<1>7. Control'
  BY <1>2, <1>4, <1>5, <1>6, MoveKeeps
<1>8. Claims'
  BY <1>2, ClaimsStay
<1> QED BY <1>3, <1>7, <1>8 DEF ManagerInv

\* A command that ends.
LEMMA EndKeeps ==
  ASSUME ManagerInv, NEW g \in Cmds, cmd' = [cmd EXCEPT ![g] = Idle], ~Starting(g), cmd[g].op # "none",
         cmd[g].op = "Reload" => cmd[g].pc = "seed",
         UNCHANGED <<cfgVars, objVars, closed, open, events, begun>>, panicked' = FALSE,
         rt' \in [Projects -> Inc \cup {0, Absent}]
  PROVE  ManagerInv'
<1>1. /\ Idle \in Command /\ OpOf(Idle) /\ Target(Idle) /\ Caught(Idle) /\ Reloading(Idle)
      /\ Idle.op = "none" /\ Idle.pc = "ready"
  BY IdleFits
<1>2. srvCfg' \in Configs
  BY DEF ManagerInv, Typing, TypeOK, cfgVars
<1>3. Served'
  <2>1. CASE srvCfg = cfg
    BY <2>1 DEF Served, cfgVars
  <2>2. CASE srvCfg # cfg
    <3>1. PICK h \in Cmds : cmd[h].op = "Reload" /\ cmd[h].pc \in {"stop", "swapServer"}
      BY <2>2 DEF ManagerInv, Control, Served
    <3>2. h # g /\ cmd'[h] = cmd[h]
      BY <3>1 DEF ManagerInv, Typing
    <3> QED BY <3>1, <3>2 DEF Served
  <2> QED BY <2>1, <2>2
<1>4. cmd[g].op = "Reload" => cmd[g].pc # "stop"
  OBVIOUS
<1> QED BY <1>1, <1>2, <1>3, <1>4, TurnKeeps DEF Starters, cfgVars

\* The server's configuration is the manager's as long as the reload has not come further.
LEMMA ServedStays ==
  ASSUME ManagerInv, NEW g \in Cmds, NEW r \in Command, cmd' = [cmd EXCEPT ![g] = r], UNCHANGED cfgVars,
         cmd[g].op = "Reload" /\ cmd[g].pc = "stop" => r.op = "Reload" /\ r.pc \in {"stop", "swapServer"},
         cmd[g].pc # "swapServer"
  PROVE  Served'
<1>1. CASE srvCfg = cfg
  BY <1>1 DEF Served, cfgVars
<1>2. CASE srvCfg # cfg
  <2>1. PICK h \in Cmds : cmd[h].op = "Reload" /\ cmd[h].pc \in {"stop", "swapServer"}
    BY <1>2 DEF ManagerInv, Control, Served
  <2>2. cmd'[h] = IF h = g THEN r ELSE cmd[h]
    BY DEF ManagerInv, Typing
  <2> QED BY <2>1, <2>2 DEF Served
<1> QED BY <1>1, <1>2

\* The same for a command whose program counter only moves, or which changes only what Stop has in hand.
LEMMA GoKeeps ==
  ASSUME ManagerInv, NEW g \in Cmds, NEW r \in Command, cmd' = [cmd EXCEPT ![g] = r],
         ~Starting(g), r.pc \notin {"spawn", "running", "launch"},
         cmd[g].op # "none", r.op = cmd[g].op, r.list = cmd[g].list, cmd[g].pc # "swapServer",
         OpOf(r), Target(r), Caught(r), Reloading(r),
         r.pc = "close" => \A i \in Inc : ~Running(i),
         cmd[g].op = "Reload" /\ cmd[g].pc = "stop" =>
           /\ r.pc \in {"stop", "swapServer"}
           /\ \A p \in Projects : children[p] # 0 /\ (p \in cmd[g].todo \/ children[p] \in Hands(cmd[g]))
                => r.pc = "stop" /\ (p \in r.todo \/ children[p] \in Hands(r)),
         UNCHANGED <<cfgVars, objVars, closed, chanVars, open, rt, begun>>
  PROVE  ManagerInv'
<1>1. Served'
  BY ServedStays
<1>2. panicked' = FALSE /\ srvCfg' \in Configs /\ rt' \in [Projects -> Inc \cup {0, Absent}]
  BY DEF ManagerInv, Typing, TypeOK, cfgVars, chanVars
<1> QED BY <1>1, <1>2, TurnKeeps DEF cfgVars, chanVars

-----------------------------------------------------------------------------
(* The actions of Start that do not touch the child *)

\* An error, or a child that is there.
LEMMA GetExistingKeeps ==
  ASSUME ManagerInv, NEW g \in Cmds, GetOrCreate(g), LET p == Head(cmd[g].list) IN children[p] # 0 \/ p \notin DOMAIN cfg.projects
  PROVE  ManagerInv'
<1> DEFINE p == Head(cmd[g].list)
<1>1. cmd[g].pc = "get" /\ ~panicked /\ ~Starting(g)
  BY DEF GetOrCreate, At, Starting
<1>2. /\ cmd[g] \in Command /\ OpOf(cmd[g]) /\ Caught(cmd[g]) /\ Reloading(cmd[g]) /\ Typing
  BY CommandIs
<1>3. cmd[g].op \in Starters /\ cmd[g].list # <<>> /\ cmd[g].list \in Seq(Projects) /\ p \in Projects
  BY <1>1, <1>2 DEF OpOf, StartLabels, Command
<1>4. CASE children[p] = 0
  <2>1. cmd' = [cmd EXCEPT ![g] = Idle] /\ UNCHANGED <<cfgVars, objVars, closed, chanVars, open, rt, begun>>
    BY <1>4 DEF GetOrCreate
  <2>2. panicked' = FALSE /\ rt' \in [Projects -> Inc \cup {0, Absent}]
    BY <1>1, <1>2, <2>1 DEF Typing, TypeOK, chanVars
  <2> QED BY <1>1, <1>3, <2>1, <2>2, EndKeeps DEF Starters, chanVars
<1>5. CASE children[p] # 0
  <2> DEFINE o == children[p]
             r == IF cmd[g].op = "Restart" THEN [cmd[g] EXCEPT !.obj = o, !.pc = "stop", !.found = {o}]
                                           ELSE [cmd[g] EXCEPT !.obj = o, !.pc = "enter"]
  <2>1. o \in Objects /\ child[o].id = p
    BY <1>2, <1>3, <1>5 DEF Typing, TypeOK, ManagerInv, Control, Mapped
  <2>2. cmd' = [cmd EXCEPT ![g] = r] /\ UNCHANGED <<cfgVars, objVars, closed, chanVars, open, rt, begun>>
    <3>1. children' = [children EXCEPT ![p] = o] /\ children' = children
      BY <1>2, <1>5 DEF GetOrCreate, Typing, TypeOK
    <3> QED BY <1>5, <3>1 DEF GetOrCreate, objVars
  <2>3. /\ r \in Command /\ r.op = cmd[g].op /\ r.list = cmd[g].list /\ r.obj = o
        /\ r.held = cmd[g].held /\ r.waits = cmd[g].waits /\ r.gone = cmd[g].gone
        /\ r.pc = IF r.op = "Restart" THEN "stop" ELSE "enter"
        /\ r.op = "Restart" => r.found = {o}
    BY <1>2, <2>1 DEF Command, Labels, StartLabels
  <2> HIDE DEF r
  <2>4. OpOf(r)
    BY <1>2, <1>3, <2>3 DEF OpOf, StartLabels, Starters
  <2>5. Target(r)
    BY <2>1, <2>3 DEF Target
  <2>6. Caught(r)
    BY <1>2, <2>3 DEF Caught
  <2>7. Reloading(r)
    BY <1>3, <2>3 DEF Reloading, Starters
  <2> QED BY <1>1, <1>3, <2>2, <2>3, <2>4, <2>5, <2>6, <2>7, GoKeeps DEF Starters
<1> QED BY <1>4, <1>5

\* A start that the child refuses.
LEMMA RefusedKeeps ==
  ASSUME ManagerInv, NEW g \in Cmds, StartEnter(g), child[cmd[g].obj].state # "idle"
  PROVE  ManagerInv'
<1>1. cmd[g].pc = "enter" /\ ~panicked /\ ~Starting(g) /\ cmd' = [cmd EXCEPT ![g] = Idle]
  BY DEF StartEnter, At, Starting
<1>2. OpOf(cmd[g]) /\ Typing
  BY CommandIs
<1>3. cmd[g].op \in Starters
  BY <1>1, <1>2 DEF OpOf, StartLabels
<1>4. panicked' = FALSE /\ rt' \in [Projects -> Inc \cup {0, Absent}]
  BY <1>1, <1>2 DEF StartEnter, Typing, TypeOK, chanVars
<1>5. UNCHANGED <<cfgVars, objVars, closed, open, events, begun>>
  BY DEF StartEnter, objVars, chanVars
<1> QED BY <1>1, <1>3, <1>4, <1>5, EndKeeps DEF Starters

\* A start that has failed.
LEMMA AbortKeeps ==
  ASSUME ManagerInv, NEW g \in Cmds, StartAbort(g)
  PROVE  ManagerInv'
<1>1. cmd[g].pc = "abort" /\ ~panicked /\ ~Starting(g) /\ cmd' = [cmd EXCEPT ![g] = Idle]
  BY DEF StartAbort, At, Starting
<1>2. OpOf(cmd[g]) /\ Typing /\ (cmd[g].op # "none" => open)
  BY CommandIs
<1>3. cmd[g].op \in Starters
  BY <1>1, <1>2 DEF OpOf, StartLabels
<1>4. panicked' = FALSE /\ rt' \in [Projects -> Inc \cup {0, Absent}]
  BY <1>1, <1>2, <1>3 DEF StartAbort, Announce, Typing, TypeOK, Starters
<1>5. UNCHANGED <<cfgVars, objVars, closed, open, events, begun>>
  BY DEF StartAbort, Announce
<1> QED BY <1>1, <1>3, <1>4, <1>5, EndKeeps DEF Starters

-----------------------------------------------------------------------------
(* The actions of Stop *)

\* A process that SIGKILL has not been sent to is the cmd of its child.
LEMMA AliveIsCmd ==
  ASSUME ManagerInv, NEW i \in Inc, Alive(i)
  PROVE  proc[i].obj \in Objects /\ child[proc[i].obj].cmd = i
<1>1. proc[i].os = "alive" /\ proc[i].obj \in Objects
  BY DEF Alive, ManagerInv, Claims, Courses
<1>2. CASE proc[i].run = "none"
  <2>1. PICK g \in Cmds : cmd[g].pc \in {"running", "launch"} /\ cmd[g].inc = i
    BY <1>1, <1>2 DEF ManagerInv, Claims, Courses
  <2> QED BY <1>1, <2>1 DEF ManagerInv, Claims, Published
<1>3. CASE proc[i].run # "none"
  <2>1. proc[i].run \in {"enter", "read"}
    BY <1>1, <1>3 DEF ManagerInv, Claims, Courses
  <2> QED BY <1>1, <2>1 DEF ManagerInv, Claims, Courses
<1> QED BY <1>2, <1>3

\* The ids of StopAll and Close.
LEMMA StopIdsKeeps ==
  ASSUME ManagerInv, NEW g \in Cmds, StopIds(g)
  PROVE  ManagerInv'
<1> DEFINE r == [cmd[g] EXCEPT !.pc = "stop", !.todo = {p \in Projects : children[p] # 0}]
<1>1. cmd[g].pc = "ids" /\ ~Starting(g)
  BY DEF StopIds, At, Starting
<1>2. /\ cmd[g] \in Command /\ OpOf(cmd[g]) /\ Target(cmd[g]) /\ Caught(cmd[g]) /\ Reloading(cmd[g]) /\ Typing
  BY CommandIs
<1>3. cmd[g].op \in {"StopAll", "Close"}
  BY <1>1, <1>2 DEF OpOf
<1>4. cmd' = [cmd EXCEPT ![g] = r]
  BY DEF StopIds
<1>5. /\ r \in Command /\ r.op = cmd[g].op /\ r.list = cmd[g].list /\ r.pc = "stop"
      /\ r.held = cmd[g].held /\ r.waits = cmd[g].waits /\ r.gone = cmd[g].gone
  BY <1>2 DEF Command, Labels
<1> HIDE DEF r
<1>6. OpOf(r) /\ Target(r) /\ Caught(r) /\ Reloading(r)
  BY <1>2, <1>3, <1>5 DEF OpOf, Target, Caught, Reloading, StartLabels, Starters
<1>7. UNCHANGED <<cfgVars, objVars, closed, chanVars, open, rt, begun>>
  BY DEF StopIds
<1> QED BY <1>1, <1>3, <1>4, <1>5, <1>6, <1>7, GoKeeps

\* The child looked up.
LEMMA StopLookupKeeps ==
  ASSUME ManagerInv, NEW g \in Cmds, NEW p \in Projects, StopLookup(g, p)
  PROVE  ManagerInv'
<1> DEFINE r == [cmd[g] EXCEPT !.todo = cmd[g].todo \ {p}, !.found = cmd[g].found \cup ({children[p]} \ {0})]
<1>1. cmd[g].pc = "stop" /\ ~Starting(g) /\ p \in cmd[g].todo
  BY DEF StopLookup, At, Starting
<1>2. /\ cmd[g] \in Command /\ OpOf(cmd[g]) /\ Target(cmd[g]) /\ Caught(cmd[g]) /\ Reloading(cmd[g]) /\ Typing
  BY CommandIs
<1>3. cmd[g].op # "none"
  BY <1>1, <1>2 DEF OpOf
<1>4. cmd' = [cmd EXCEPT ![g] = r]
  BY <1>2 DEF StopLookup, Typing
<1>5. children[p] \in Objects \cup {0} /\ (children[p] # 0 => child[children[p]].id = p)
  BY <1>2 DEF Typing, TypeOK, ManagerInv, Control, Mapped
<1>6. /\ r \in Command /\ r.op = cmd[g].op /\ r.list = cmd[g].list /\ r.pc = "stop" /\ r.obj = cmd[g].obj
      /\ r.held = cmd[g].held /\ r.waits = cmd[g].waits /\ r.gone = cmd[g].gone
      /\ r.new = cmd[g].new /\ r.drop = cmd[g].drop
      /\ r.todo = cmd[g].todo \ {p} /\ r.found = cmd[g].found \cup ({children[p]} \ {0})
  BY <1>1, <1>2, <1>5 DEF Command
<1> HIDE DEF r
<1>7. OpOf(r) /\ Target(r) /\ Caught(r)
  BY <1>1, <1>2, <1>6 DEF OpOf, Target, Caught
<1>8. cmd[g].op = "Reload" => Hands(cmd[g]) = {} /\ Hands(r) = {children[p]} \ {0}
  BY <1>6 DEF StopLookup, Hands
<1>9. Reloading(r)
  BY <1>1, <1>2, <1>5, <1>6, <1>8 DEF Reloading, StopLookup
<1>10. ASSUME cmd[g].op = "Reload", NEW q \in Projects, children[q] # 0,
              q \in cmd[g].todo \/ children[q] \in Hands(cmd[g])
       PROVE  q \in r.todo \/ children[q] \in Hands(r)
  BY <1>6, <1>8, <1>10
<1>11. UNCHANGED <<cfgVars, objVars, closed, chanVars, open, rt, begun>>
  BY DEF StopLookup
<1> QED BY <1>1, <1>3, <1>4, <1>6, <1>7, <1>9, <1>10, <1>11, GoKeeps

\* Its cmd read.
LEMMA StopReadKeeps ==
  ASSUME ManagerInv, NEW g \in Cmds, NEW o \in Objects, StopRead(g, o)
  PROVE  ManagerInv'
<1> DEFINE i == child[o].cmd
           r == IF i = 0 THEN [cmd[g] EXCEPT !.found = cmd[g].found \ {o}, !.gone = cmd[g].gone \cup Gone(g, o)]
                         ELSE [cmd[g] EXCEPT !.found = cmd[g].found \ {o}, !.held = cmd[g].held \cup {i}]
<1>1. cmd[g].pc = "stop" /\ ~Starting(g) /\ o \in cmd[g].found
  BY DEF StopRead, At, Starting
<1>2. /\ cmd[g] \in Command /\ OpOf(cmd[g]) /\ Target(cmd[g]) /\ Caught(cmd[g]) /\ Reloading(cmd[g]) /\ Typing
  BY CommandIs
<1>3. cmd[g].op # "none"
  BY <1>1, <1>2 DEF OpOf
<1>4. cmd' = [cmd EXCEPT ![g] = r]
  BY <1>2 DEF StopRead, Typing
<1>5. child[o] \in Children /\ i \in Inc \cup {0}
  BY <1>2 DEF Typing, Children
<1>6. i # 0 => proc[i].os # "none" /\ proc[i].obj = o
  BY DEF ManagerInv, Claims, Owned
<1>7. \A j \in Inc : Alive(j) /\ proc[j].obj = o => j \in {i} \ {0}
  BY AliveIsCmd DEF Inc
<1>8. /\ r \in Command /\ r.op = cmd[g].op /\ r.list = cmd[g].list /\ r.pc = "stop" /\ r.obj = cmd[g].obj
      /\ r.waits = cmd[g].waits /\ r.new = cmd[g].new /\ r.drop = cmd[g].drop /\ r.todo = cmd[g].todo
      /\ r.found = cmd[g].found \ {o}
      /\ r.held = cmd[g].held \cup ({i} \ {0})
      /\ r.gone = IF i = 0 THEN cmd[g].gone \cup Gone(g, o) ELSE cmd[g].gone
  BY <1>1, <1>2, <1>5 DEF Command, Gone
<1> HIDE DEF r, i
<1>9. OpOf(r) /\ Target(r) /\ Caught(r)
  BY <1>1, <1>2, <1>6, <1>7, <1>8 DEF OpOf, Target, Caught, Gone
<1>10. cmd[g].op = "Reload" => Hands(cmd[g]) = {o} /\ Hands(r) = {o} /\ r.found = {} /\ r.held \cup r.waits = {i} \ {0}
  <2>1. ASSUME cmd[g].op = "Reload"
        PROVE  cmd[g].found = {o} /\ cmd[g].held = {} /\ cmd[g].waits = {} /\ cmd[g].gone = {}
    BY <1>1, <1>2, <2>1 DEF Reloading, Hands
  <2> QED BY <1>5, <1>6, <1>8, <2>1 DEF Hands, Gone
<1>11. Reloading(r)
  <2> SUFFICES ASSUME r.op = "Reload" PROVE Reloading(r)
    BY DEF Reloading
  <2>1. /\ r.pc # "swap" /\ cfg = r.new /\ \A p \in r.drop : p \notin DOMAIN cfg.projects
        /\ r.todo \subseteq r.drop /\ child[o].id \in r.drop \ r.todo /\ children[child[o].id] = o
    BY <1>1, <1>2, <1>8, <1>10 DEF Reloading
  <2>2. r.gone = {} \/ r.held \cup r.waits = {}
    BY <1>1, <1>2, <1>8, <1>10 DEF Reloading
  <2>3. \A j \in Inc : Alive(j) /\ proc[j].obj = o => j \in r.held \cup r.waits
    BY <1>7, <1>8, <1>10
  <2>4. (\A j, k \in r.held \cup r.waits : j = k) /\ r.held \cap r.waits = {}
    BY <1>1, <1>2, <1>8, <1>10 DEF Reloading
  <2>5. Hands(r) = {o} /\ r.found = {}
    BY <1>8, <1>10
  <2> QED BY <2>1, <2>2, <2>3, <2>4, <2>5 DEF Reloading
<1>12. UNCHANGED <<cfgVars, objVars, closed, chanVars, open, rt, begun>>
  BY DEF StopRead
<1> QED BY <1>1, <1>3, <1>4, <1>8, <1>9, <1>10, <1>11, <1>12, GoKeeps

\* All calls of Stop have returned.
LEMMA StoppedKeeps ==
  ASSUME ManagerInv, NEW g \in Cmds, Stopped(g)
  PROVE  ManagerInv'
<1>1. /\ cmd[g].pc = "stop" /\ ~Starting(g) /\ ~panicked
      /\ cmd[g].todo = {} /\ cmd[g].found = {} /\ cmd[g].held = {} /\ cmd[g].gone = {}
      /\ cmd[g].waits = {} \/ cmd[g].op = "Close"
  BY DEF Stopped, At, Starting
<1>2. /\ cmd[g] \in Command /\ OpOf(cmd[g]) /\ Target(cmd[g]) /\ Caught(cmd[g]) /\ Reloading(cmd[g]) /\ Typing
  BY CommandIs
<1>3. cmd[g].op \in {"Stop", "StopAll", "Restart", "Reload", "Close"}
  BY <1>1, <1>2 DEF OpOf, Command, AllOps, Starters
<1>4. UNCHANGED <<cfgVars, objVars, closed, chanVars, open, rt, begun>>
  BY DEF Stopped
<1>5. CASE cmd[g].op \in {"Stop", "StopAll"}
  <2>1. cmd' = [cmd EXCEPT ![g] = Idle]
    BY <1>2, <1>5 DEF Stopped
  <2>2. panicked' = FALSE /\ rt' \in [Projects -> Inc \cup {0, Absent}]
    BY <1>1, <1>2, <1>4 DEF Typing, TypeOK, chanVars
  <2> QED BY <1>1, <1>4, <1>5, <2>1, <2>2, EndKeeps DEF chanVars
<1>6. ASSUME NEW l \in {"again", "swapServer", "wait"}, cmd' = [cmd EXCEPT ![g] = [cmd[g] EXCEPT !.pc = l]],
             l = "again" => cmd[g].op = "Restart", l = "swapServer" => cmd[g].op = "Reload",
             l = "wait" => cmd[g].op = "Close", cmd[g].op = "Reload" => l = "swapServer"
      PROVE  ManagerInv'
  <2> DEFINE r == [cmd[g] EXCEPT !.pc = l]
  <2>1. Goes(cmd[g], r, l)
    BY <1>2, PcSet DEF Labels
  <2>2. cmd' = [cmd EXCEPT ![g] = r]
    BY <1>6
  <2> HIDE DEF r
  <2>3. OpOf(r)
    BY <1>1, <1>2, <1>6, <2>1 DEF OpOf, Goes, StartLabels, Starters
  <2>4. Target(r)
    BY <1>1, <1>2, <1>6, <2>1 DEF Target, Goes, StartLabels
  <2>5. Caught(r)
    BY <1>1, <1>2, <1>6, <2>1 DEF Caught, Goes
  <2>6. Hands(r) = Hands(cmd[g]) /\ (cmd[g].op = "Reload" => Hands(r) = {})
    BY <1>1, <2>1 DEF Hands, Goes
  <2>7. Reloading(r)
    BY <1>1, <1>2, <1>6, <2>1, <2>6 DEF Reloading, Goes
  <2>8. /\ r \in Command /\ r.pc = l /\ r.op = cmd[g].op /\ r.list = cmd[g].list /\ r.todo = {}
        /\ r.pc \notin {"spawn", "running", "launch", "close"}
    BY <1>1, <2>1 DEF Goes
  <2> QED BY <1>1, <1>3, <1>4, <1>6, <2>2, <2>3, <2>4, <2>5, <2>6, <2>7, <2>8, GoKeeps
<1>7. CASE cmd[g].op = "Restart"
  <2>1. cmd' = [cmd EXCEPT ![g] = [cmd[g] EXCEPT !.pc = "again"]]
    BY <1>2, <1>7 DEF Stopped
  <2> QED BY <1>6, <1>7, <2>1
<1>8. CASE cmd[g].op = "Reload"
  <2>1. cmd' = [cmd EXCEPT ![g] = [cmd[g] EXCEPT !.pc = "swapServer"]]
    BY <1>2, <1>8 DEF Stopped
  <2> QED BY <1>6, <1>8, <2>1
<1>9. CASE cmd[g].op = "Close"
  <2>1. cmd' = [cmd EXCEPT ![g] = [cmd[g] EXCEPT !.pc = "wait"]]
    BY <1>2, <1>9 DEF Stopped
  <2> QED BY <1>6, <1>9, <2>1
<1> QED BY <1>3, <1>5, <1>7, <1>8, <1>9

\* Close has waited.
LEMMA CloseWaitsKeeps ==
  ASSUME ManagerInv, NEW g \in Cmds, CloseWaits(g)
  PROVE  ManagerInv'
<1> DEFINE r == [cmd[g] EXCEPT !.pc = "close"]
<1>1. cmd[g].pc = "wait" /\ ~Starting(g) /\ (\A i \in Inc : ~Running(i)) /\ cmd' = [cmd EXCEPT ![g] = r]
  BY DEF CloseWaits, At, Starting
<1>2. /\ cmd[g] \in Command /\ OpOf(cmd[g]) /\ Target(cmd[g]) /\ Caught(cmd[g]) /\ Reloading(cmd[g]) /\ Typing
  BY CommandIs
<1>3. cmd[g].op = "Close"
  BY <1>1, <1>2 DEF OpOf
<1>4. Goes(cmd[g], r, "close")
  BY <1>2, PcSet DEF Labels
<1> HIDE DEF r
<1>5. OpOf(r) /\ Target(r) /\ Caught(r) /\ Reloading(r)
  BY <1>2, <1>3, <1>4 DEF OpOf, Target, Caught, Reloading, StartLabels, Starters, Goes
<1>6. UNCHANGED <<cfgVars, objVars, closed, chanVars, open, rt, begun>>
  BY DEF CloseWaits
<1> QED BY <1>1, <1>3, <1>4, <1>5, <1>6, GoKeeps DEF Goes

\* The server has the new configuration.
LEMMA SwapServerKeeps ==
  ASSUME ManagerInv, NEW g \in Cmds, SwapServer(g)
  PROVE  ManagerInv'
<1> DEFINE r == [cmd[g] EXCEPT !.pc = "seed"]
<1>1. cmd[g].pc = "swapServer" /\ ~Starting(g) /\ ~panicked /\ cmd' = [cmd EXCEPT ![g] = r]
  BY DEF SwapServer, At, Starting
<1>2. /\ cmd[g] \in Command /\ OpOf(cmd[g]) /\ Target(cmd[g]) /\ Caught(cmd[g]) /\ Reloading(cmd[g]) /\ Typing
  BY CommandIs
<1>3. cmd[g].op = "Reload"
  BY <1>1, <1>2 DEF OpOf
<1>4. Goes(cmd[g], r, "seed")
  BY <1>2, PcSet DEF Labels
<1> HIDE DEF r
<1>5. OpOf(r) /\ Target(r) /\ Caught(r)
  BY <1>1, <1>2, <1>3, <1>4 DEF OpOf, Target, Caught, StartLabels, Starters, Goes
<1>6. Reloading(r)
  BY <1>1, <1>2, <1>3, <1>4 DEF Reloading, Hands, Goes
<1>7. cfg = cmd[g].new
  BY <1>1, <1>2, <1>3 DEF Reloading
<1>8. /\ UNCHANGED <<cfg, objVars, closed, open, events, begun>> /\ panicked' = FALSE
      /\ srvCfg' = cfg' /\ cfg \in Configs /\ rt' \in [Projects -> Inc \cup {0, Absent}]
  BY <1>1, <1>2, <1>7 DEF SwapServer, chanVars, Typing, TypeOK
<1>9. Served'
  BY <1>8 DEF Served
<1> QED BY <1>1, <1>3, <1>4, <1>5, <1>6, <1>8, <1>9, TurnKeeps DEF Goes, Starters

\* The reload ends.
LEMMA SeedAndDeleteKeeps ==
  ASSUME ManagerInv, NEW g \in Cmds, SeedAndDelete(g)
  PROVE  ManagerInv'
<1>1. cmd[g].pc = "seed" /\ ~Starting(g) /\ ~panicked /\ cmd' = [cmd EXCEPT ![g] = Idle]
  BY DEF SeedAndDelete, At, Starting
<1>2. OpOf(cmd[g]) /\ Typing
  BY CommandIs
<1>3. cmd[g].op = "Reload"
  BY <1>1, <1>2 DEF OpOf
<1>4. rt \in [Projects -> Inc \cup {0, Absent}]
  BY <1>2 DEF Typing, TypeOK
<1>5. rt' \in [Projects -> Inc \cup {0, Absent}]
  BY <1>4 DEF SeedAndDelete
<1>6. UNCHANGED <<cfgVars, objVars, closed, open, events, begun>> /\ panicked' = FALSE
  BY <1>1 DEF SeedAndDelete, chanVars
<1> QED BY <1>1, <1>3, <1>5, <1>6, EndKeeps

-----------------------------------------------------------------------------
(* Steps that set the state of a child or send SIGKILL *)

\* A step of a command that has claimed no child, which makes none idle but a free one and may kill.
LEMMA ActKeeps ==
  ASSUME ManagerInv, NEW g \in Cmds, NEW r \in Command, cmd' = [cmd EXCEPT ![g] = r],
         ~Starting(g), r.pc \notin {"spawn", "running", "launch", "close"},
         cmd[g].op # "none", r.op = cmd[g].op, r.list = cmd[g].list, cmd[g].pc # "swapServer",
         OpOf(r), Target(r), Caught(r)', Reloading(r)',
         cmd[g].op = "Reload" /\ cmd[g].pc = "stop" =>
           /\ r.pc = "stop"
           /\ \A p \in Projects : children[p] # 0 /\ (p \in cmd[g].todo \/ children[p] \in Hands(cmd[g]))
                => p \in r.todo \/ children[p] \in Hands(r)',
         child' \in [Objects -> Children], proc' \in [Inc -> Processes],
         \A o \in Objects : /\ child'[o].id = child[o].id /\ child'[o].cmd = child[o].cmd
                            /\ child'[o].waitDone = child[o].waitDone
                            /\ child'[o].state = "idle" => child[o].state = "idle" \/ Free(o),
         \A i \in Inc : /\ proc'[i].obj = proc[i].obj /\ proc'[i].run = proc[i].run
                        /\ proc'[i].serves = proc[i].serves /\ proc'[i].done = proc[i].done
                        /\ proc'[i].os = proc[i].os \/ (proc[i].os = "alive" /\ proc'[i].os = "killed"),
         UNCHANGED <<cfgVars, children, closed, open, events, rt, begun>>, panicked' = FALSE
  PROVE  ManagerInv'
<1>1. Typing
  BY DEF ManagerInv
<1>2. Advances(g, r)
  BY <1>1, AdvancesTo
<1>3. Typing'
  BY <1>1, <1>2, TypingFrom DEF Typing, TypeOK, Advances, cfgVars
<1>4. Steady
  BY DEF Steady, Running
<1>5. Served'
  BY ServedStays
<1>6. Control'
  BY <1>2, <1>4, <1>5, MoveKeeps DEF cfgVars
<1>7. Claims'
  BY <1>2, ClaimsStay
<1> QED BY <1>3, <1>6, <1>7 DEF ManagerInv

\* What a reload that holds a process has in hand.
LEMMA ReloadHolds ==
  ASSUME ManagerInv, NEW g \in Cmds, cmd[g].op = "Reload", NEW i \in cmd[g].held \cup cmd[g].waits
  PROVE  /\ cmd[g].held \cup cmd[g].waits = {i} /\ cmd[g].found = {} /\ cmd[g].gone = {}
         /\ Hands(cmd[g]) = {proc[i].obj} /\ cmd[g].held \cap cmd[g].waits = {}
<1>1. Reloading(cmd[g])
  BY CommandIs
<1>2. /\ cmd[g].held \cup cmd[g].waits = {i} /\ cmd[g].found = {} /\ cmd[g].gone = {}
      /\ cmd[g].held \cap cmd[g].waits = {}
  BY <1>1 DEF Reloading
<1> QED BY <1>2 DEF Hands

\* The state is stopping, and SIGTERM sent.
LEMMA StopSetKeeps ==
  ASSUME ManagerInv, NEW g \in Cmds, NEW i \in Inc, StopSet(g, i)
  PROVE  ManagerInv'
<1> DEFINE o == proc[i].obj
           e == IF proc[i].os = "reaped"
                THEN [cmd[g] EXCEPT !.held = cmd[g].held \ {i}, !.gone = cmd[g].gone \cup Gone(g, o)]
                ELSE [cmd[g] EXCEPT !.held = cmd[g].held \ {i}, !.waits = cmd[g].waits \cup {i}]
<1>1. cmd[g].pc = "stop" /\ ~Starting(g) /\ i \in cmd[g].held /\ ~panicked
  BY DEF StopSet, At, Starting
<1>2. /\ cmd[g] \in Command /\ OpOf(cmd[g]) /\ Target(cmd[g]) /\ Caught(cmd[g]) /\ Reloading(cmd[g]) /\ Typing
      /\ (cmd[g].op # "none" => open)
  BY CommandIs
<1>3. cmd[g].op # "none" /\ open
  BY <1>1, <1>2 DEF OpOf
<1>4. cmd' = [cmd EXCEPT ![g] = e]
  BY <1>2 DEF StopSet, Typing
<1>5. proc[i].os # "none" /\ o \in Objects
  BY <1>1, <1>2 DEF Caught, ManagerInv, Claims, Courses
<1> DEFINE Fits(r) ==
      /\ r.op = cmd[g].op /\ r.list = cmd[g].list /\ r.pc = "stop" /\ r.obj = cmd[g].obj
      /\ r.new = cmd[g].new /\ r.drop = cmd[g].drop /\ r.todo = cmd[g].todo /\ r.found = cmd[g].found
      /\ r.held = cmd[g].held \ {i}
      /\ r.waits = IF proc[i].os = "reaped" THEN cmd[g].waits ELSE cmd[g].waits \cup {i}
      /\ r.gone = IF proc[i].os = "reaped" THEN cmd[g].gone \cup Gone(g, o) ELSE cmd[g].gone
<1>a. e \in Command /\ Fits(e)
  BY <1>1, <1>2, <1>5 DEF Command, Gone
<1> HIDE DEF e, Fits
<1>b. PICK r \in Command : Fits(r) /\ cmd' = [cmd EXCEPT ![g] = r]
  BY <1>4, <1>a
<1>6. /\ r \in Command /\ r.op = cmd[g].op /\ r.list = cmd[g].list /\ r.pc = "stop" /\ r.obj = cmd[g].obj
      /\ r.new = cmd[g].new /\ r.drop = cmd[g].drop /\ r.todo = cmd[g].todo /\ r.found = cmd[g].found
      /\ r.held = cmd[g].held \ {i}
      /\ r.waits = IF proc[i].os = "reaped" THEN cmd[g].waits ELSE cmd[g].waits \cup {i}
      /\ r.gone = IF proc[i].os = "reaped" THEN cmd[g].gone \cup Gone(g, o) ELSE cmd[g].gone
  BY <1>b DEF Fits
<1>7. /\ child' = [child EXCEPT ![o].state = "stopping"] /\ proc' = proc
      /\ UNCHANGED <<cfgVars, children, closed, open, events, rt, begun>> /\ panicked' = FALSE
  BY <1>1, <1>3 DEF StopSet, Announce
<1>8. /\ child' \in [Objects -> Children]
      /\ \A q \in Objects :
           /\ child'[q].id = child[q].id /\ child'[q].cmd = child[q].cmd
           /\ child'[q].waitDone = child[q].waitDone
           /\ child'[q].state = "idle" => child[q].state = "idle"
  <2>1. child \in [Objects -> Children] /\ "stopping" \in States
    BY <1>2 DEF Typing, States
  <2>2. /\ child' \in [Objects -> Children]
        /\ \A q \in Objects :
             /\ child'[q].id = child[q].id /\ child'[q].cmd = child[q].cmd
             /\ child'[q].waitDone = child[q].waitDone
             /\ child'[q].state = IF q = o THEN "stopping" ELSE child[q].state
    BY <1>5, <1>7, <2>1, StateSet DEF Becomes
  <2> QED BY <2>2
<1>9. OpOf(r) /\ Target(r)
  BY <1>1, <1>2, <1>6 DEF OpOf, Target, Gone
<1>10. Caught(r)'
  <2>1. \A j \in Inc : Alive(j)' => Alive(j) /\ (j = i => j \in r.waits)
    BY <1>6, <1>7 DEF Alive
  <2> QED BY <1>1, <1>2, <1>6, <1>7, <2>1 DEF Caught
<1>11. ASSUME cmd[g].op = "Reload"
       PROVE  /\ Hands(r)' = {o} /\ Hands(cmd[g]) = {o} /\ r.found = {} /\ (r.gone = {} \/ r.held \cup r.waits = {})
              /\ r.held \cup r.waits = IF proc[i].os = "reaped" THEN {} ELSE {i}
              /\ cmd[g].held \cup cmd[g].waits = {i} /\ o \notin cmd[g].found /\ r.held \cap r.waits = {}
  <2>1. /\ cmd[g].held \cup cmd[g].waits = {i} /\ cmd[g].found = {} /\ cmd[g].gone = {} /\ Hands(cmd[g]) = {o}
        /\ cmd[g].held \cap cmd[g].waits = {}
    BY <1>1, <1>11, ReloadHolds
  <2>2. Hands(r)' = {o}
    BY <1>1, <1>6, <1>7, <1>11, <2>1 DEF Hands, Gone
  <2> QED BY <1>1, <1>6, <1>11, <2>1, <2>2
<1>12. Reloading(r)'
  <2> SUFFICES ASSUME cmd[g].op = "Reload" PROVE Reloading(r)'
    BY <1>6 DEF Reloading
  <2>1. /\ cfg' = r.new /\ (\A p \in r.drop : p \notin DOMAIN cfg'.projects) /\ r.todo \subseteq r.drop
        /\ child[o].id \in r.drop \ r.todo /\ children[child[o].id] = o
        /\ \A j \in Inc : Alive(j) /\ proc[j].obj = o => j = i
    BY <1>1, <1>2, <1>6, <1>7, <1>11 DEF Reloading, cfgVars
  <2>2. \A j \in Inc : Alive(j)' /\ proc'[j].obj = o => j \in r.held \cup r.waits
    BY <1>7, <1>11, <2>1 DEF Alive
  <2>3. \A j, k \in r.held \cup r.waits : j = k
    BY <1>11
  <2> QED BY <1>5, <1>6, <1>7, <1>8, <1>11, <2>1, <2>2, <2>3 DEF Reloading
<1>13. ASSUME cmd[g].op = "Reload", NEW p \in Projects, children[p] # 0, p \in cmd[g].todo \/ children[p] \in Hands(cmd[g])
       PROVE  p \in r.todo \/ children[p] \in Hands(r)'
  BY <1>6, <1>11, <1>13
<1> QED BY <1>1, <1>2, <1>3, <1>b, <1>6, <1>7, <1>8, <1>9, <1>10, <1>12, <1>13, ActKeeps DEF Typing

\* A call of Stop returns, its process reaped or killed.
LEMMA StopReturnsKeeps ==
  ASSUME ManagerInv, NEW g \in Cmds, NEW i \in Inc, StopReturns(g, i)
  PROVE  ManagerInv'
<1> DEFINE o == proc[i].obj
           e == [cmd[g] EXCEPT !.waits = cmd[g].waits \ {i}, !.gone = cmd[g].gone \cup Gone(g, o)]
<1>1. cmd[g].pc \in {"stop", "wait"} /\ ~Starting(g) /\ i \in cmd[g].waits /\ ~panicked
  BY DEF StopReturns, At, Starting
<1>2. /\ cmd[g] \in Command /\ OpOf(cmd[g]) /\ Target(cmd[g]) /\ Caught(cmd[g]) /\ Reloading(cmd[g]) /\ Typing
  BY CommandIs
<1>3. cmd[g].op # "none" /\ (cmd[g].op \in {"Restart", "Reload"} => cmd[g].pc = "stop")
  BY <1>1, <1>2 DEF OpOf
<1>4. cmd' = [cmd EXCEPT ![g] = e]
  BY <1>2 DEF StopReturns, Typing
<1>5. proc[i].os # "none" /\ o \in Objects /\ (proc[i].os = "alive" => ~proc[i].done)
  BY <1>1, <1>2 DEF Caught, ManagerInv, Claims, Courses
<1> DEFINE Fits(r) ==
      /\ r.op = cmd[g].op /\ r.list = cmd[g].list /\ r.pc = cmd[g].pc /\ r.obj = cmd[g].obj
      /\ r.new = cmd[g].new /\ r.drop = cmd[g].drop /\ r.todo = cmd[g].todo /\ r.found = cmd[g].found
      /\ r.held = cmd[g].held /\ r.waits = cmd[g].waits \ {i} /\ r.gone = cmd[g].gone \cup Gone(g, o)
<1>a. e \in Command /\ Fits(e)
  BY <1>1, <1>2, <1>5 DEF Command, Gone
<1> HIDE DEF e, Fits
<1>b. PICK r \in Command : Fits(r) /\ cmd' = [cmd EXCEPT ![g] = r]
  BY <1>4, <1>a
<1>6. /\ r \in Command /\ r.op = cmd[g].op /\ r.list = cmd[g].list /\ r.pc = cmd[g].pc /\ r.obj = cmd[g].obj
      /\ r.new = cmd[g].new /\ r.drop = cmd[g].drop /\ r.todo = cmd[g].todo /\ r.found = cmd[g].found
      /\ r.held = cmd[g].held /\ r.waits = cmd[g].waits \ {i} /\ r.gone = cmd[g].gone \cup Gone(g, o)
  BY <1>b DEF Fits
<1>7. child' = child /\ UNCHANGED <<cfgVars, children, closed, open, events, rt, begun>> /\ panicked' = FALSE
  BY <1>1 DEF StopReturns, chanVars
<1>8. /\ proc' \in [Inc -> Processes]
      /\ \A j \in Inc : /\ proc'[j].obj = proc[j].obj /\ proc'[j].run = proc[j].run
                        /\ proc'[j].serves = proc[j].serves /\ proc'[j].done = proc[j].done
                        /\ proc'[j].os = proc[j].os \/ (proc[j].os = "alive" /\ proc'[j].os = "killed")
                        /\ j = i => proc'[j].os # "alive"
  <2>1. CASE proc[i].os = "alive"
    <3>1. proc' = [proc EXCEPT ![i].os = "killed"]
      BY <1>5, <2>1 DEF StopReturns
    <3>2. proc \in [Inc -> Processes] /\ "killed" \in OsStates
      BY <1>2 DEF Typing, OsStates
    <3>3. /\ proc' \in [Inc -> Processes]
          /\ \A j \in Inc : /\ proc'[j].obj = proc[j].obj /\ proc'[j].run = proc[j].run
                            /\ proc'[j].serves = proc[j].serves /\ proc'[j].done = proc[j].done
                            /\ proc'[j].os = IF j = i THEN "killed" ELSE proc[j].os
      BY <3>1, <3>2, OsSet
    <3> QED BY <2>1, <3>3
  <2>2. CASE proc[i].os # "alive"
    BY <1>2, <2>2 DEF StopReturns, Typing
  <2> QED BY <2>1, <2>2
<1>9. \A j \in Inc : Alive(j)' => Alive(j) /\ j # i
  BY <1>8 DEF Alive
<1>10. OpOf(r) /\ Target(r)
  BY <1>1, <1>2, <1>3, <1>6 DEF OpOf, Target, StartLabels, Gone
<1>11. Caught(r)'
  <2>1. r.held \subseteq Inc /\ r.waits \subseteq Inc
    BY <1>6 DEF Command
  <2>2. \A j \in Inc : proc[j].os # "none" => proc'[j].os # "none"
    BY <1>8
  <2>3. \A j \in r.held \cup r.waits : proc'[j].os # "none"
    BY <1>2, <1>6, <2>1, <2>2 DEF Caught
  <2>4. ASSUME r.op = "Restart", r.pc = "again" \/ (r.pc = "stop" /\ r.obj \notin r.found),
               NEW j \in Inc, Alive(j)', proc'[j].obj = r.obj
        PROVE  j \in r.held \cup r.waits
    BY <1>2, <1>6, <1>8, <1>9, <2>4 DEF Caught
  <2> QED BY <2>3, <2>4 DEF Caught
<1>12. ASSUME cmd[g].op = "Reload"
       PROVE  /\ Hands(r)' = {o} /\ Hands(cmd[g]) = {o} /\ r.found = {} /\ r.held \cup r.waits = {}
              /\ cmd[g].held \cup cmd[g].waits = {i} /\ o \notin cmd[g].found
  <2>1. /\ cmd[g].held \cup cmd[g].waits = {i} /\ cmd[g].found = {} /\ cmd[g].gone = {} /\ Hands(cmd[g]) = {o}
        /\ cmd[g].held \cap cmd[g].waits = {}
    BY <1>1, <1>12, ReloadHolds
  <2>2. r.held \cup r.waits = {}
    BY <1>1, <1>6, <2>1
  <2>3. Hands(r)' = {o}
    BY <1>6, <1>12, <2>1, <2>2 DEF Hands, Gone
  <2> QED BY <1>6, <2>1, <2>2, <2>3
<1>13. Reloading(r)'
  <2> SUFFICES ASSUME cmd[g].op = "Reload" PROVE Reloading(r)'
    BY <1>6 DEF Reloading
  <2>1. /\ cfg' = r.new /\ (\A p \in r.drop : p \notin DOMAIN cfg'.projects) /\ r.todo \subseteq r.drop
        /\ child[o].id \in r.drop \ r.todo /\ children[child[o].id] = o
        /\ \A j \in Inc : Alive(j) /\ proc[j].obj = o => j = i
    BY <1>2, <1>3, <1>6, <1>7, <1>12 DEF Reloading, cfgVars
  <2>2. \A j \in Inc : ~(Alive(j)' /\ proc'[j].obj = o)
    BY <1>8, <1>9, <2>1
  <2> QED BY <1>3, <1>5, <1>6, <1>7, <1>12, <2>1, <2>2 DEF Reloading
<1>14. ASSUME cmd[g].op = "Reload", NEW p \in Projects, children[p] # 0, p \in cmd[g].todo \/ children[p] \in Hands(cmd[g])
       PROVE  p \in r.todo \/ children[p] \in Hands(r)'
  BY <1>6, <1>12, <1>14
<1>15. \A q \in Objects : child'[q].state = "idle" => child[q].state = "idle" \/ Free(q)
  BY <1>7
<1> QED BY <1>1, <1>2, <1>3, <1>b, <1>6, <1>7, <1>8, <1>10, <1>11, <1>13, <1>14, <1>15, ActKeeps DEF Typing

\* The child of a Restart whose sleep is over is nobody's.
LEMMA AgainFree ==
  ASSUME ManagerInv, Uncrowded, NEW g \in Cmds, RestartAgain(g)
  PROVE  Free(cmd[g].obj)
<1>1. cmd[g].pc = "again" /\ \A i \in Inc : proc[i].obj = cmd[g].obj => ~Leaving(i)
  BY DEF RestartAgain, At, Uncrowded
<1>2. cmd[g] \in Command /\ OpOf(cmd[g]) /\ Target(cmd[g]) /\ Caught(cmd[g])
  BY CommandIs
<1>3. /\ cmd[g].op = "Restart" /\ cmd[g].held = {} /\ cmd[g].waits = {} /\ cmd[g].list # <<>>
      /\ cmd[g].list \in Seq(Projects) /\ child[cmd[g].obj].id = Head(cmd[g].list)
  BY <1>1, <1>2 DEF OpOf, Target, Starters, Command
<1>4. ASSUME NEW h \in Cmds, Starting(h), cmd[h].obj = cmd[g].obj PROVE FALSE
  <2>1. cmd[h] \in Command /\ OpOf(cmd[h]) /\ Target(cmd[h])
    BY CommandIs
  <2>2. /\ cmd[h].op \in Starters /\ cmd[h].list # <<>> /\ cmd[h].list \in Seq(Projects)
        /\ child[cmd[h].obj].id = Head(cmd[h].list) /\ h # g
    BY <1>1, <1>4, <2>1 DEF OpOf, Target, Starters, Command, Starting, StartLabels
  <2>3. Head(cmd[g].list) \in ToSet(cmd[g].list) /\ Head(cmd[g].list) \in ToSet(cmd[h].list)
    BY <1>3, <1>4, <2>2 DEF ToSet
  <2> QED BY <1>3, <2>2, <2>3 DEF ManagerInv, Control, Solo
<1>5. ASSUME NEW i \in Inc, Serving(i), proc[i].obj = cmd[g].obj PROVE FALSE
  <2>1. Running(i)
    BY <1>5 DEF Serving, Running
  <2>2. Alive(i)
    BY <1>1, <1>5, <2>1 DEF Leaving, Alive
  <2> QED BY <1>1, <1>2, <1>3, <1>5, <2>2 DEF Caught
<1> QED BY <1>4, <1>5 DEF Free

\* Restart makes it idle.
LEMMA RestartAgainKeeps ==
  ASSUME ManagerInv, Uncrowded, NEW g \in Cmds, RestartAgain(g)
  PROVE  ManagerInv'
<1> DEFINE o == cmd[g].obj
           e == [cmd[g] EXCEPT !.pc = "enter"]
<1>1. cmd[g].pc = "again" /\ ~Starting(g) /\ ~panicked
  BY DEF RestartAgain, At, Starting
<1>2. /\ cmd[g] \in Command /\ OpOf(cmd[g]) /\ Target(cmd[g]) /\ Caught(cmd[g]) /\ Typing
  BY CommandIs
<1>3. cmd[g].op = "Restart" /\ o \in Objects
  BY <1>1, <1>2 DEF OpOf, Target
<1>4. cmd' = [cmd EXCEPT ![g] = e] /\ Goes(cmd[g], e, "enter")
  BY <1>2, PcSet DEF RestartAgain, Typing, Labels, StartLabels
<1> HIDE DEF e
<1>a. e \in Command
  BY <1>4 DEF Goes
<1>5. PICK r \in Command : Goes(cmd[g], r, "enter") /\ cmd' = [cmd EXCEPT ![g] = r]
  BY <1>4, <1>a
<1>6. /\ child' = [child EXCEPT ![o].state = "idle"] /\ proc' = proc
      /\ UNCHANGED <<cfgVars, children, closed, open, events, rt, begun>> /\ panicked' = FALSE
  BY <1>1 DEF RestartAgain, chanVars
<1>7. Free(o)
  BY AgainFree
<1>8. /\ child' \in [Objects -> Children]
      /\ \A q \in Objects :
           /\ child'[q].id = child[q].id /\ child'[q].cmd = child[q].cmd
           /\ child'[q].waitDone = child[q].waitDone
           /\ child'[q].state = "idle" => child[q].state = "idle" \/ Free(q)
  BY <1>2, <1>3, <1>6, <1>7, StateSet DEF Becomes, Typing, States
<1>9. OpOf(r) /\ Target(r) /\ Caught(r)' /\ Reloading(r)'
  BY <1>1, <1>2, <1>3, <1>5, <1>6 DEF OpOf, Target, Caught, Reloading, Goes, StartLabels, Starters
<1> QED BY <1>1, <1>2, <1>3, <1>5, <1>6, <1>8, <1>9, ActKeeps DEF Typing, Goes

-----------------------------------------------------------------------------
(* A start that has its child: the claim, the spawn that fails, running *)

\* Where a start is, and whom its child belongs to.
LEMMA StartIs ==
  ASSUME ManagerInv, NEW g \in Cmds, cmd[g].pc \in StartLabels \ {"get"}
  PROVE  /\ cmd[g] \in Command /\ OpOf(cmd[g]) /\ Target(cmd[g]) /\ Typing
         /\ cmd[g].op \in Starters /\ open /\ ~closed
         /\ cmd[g].obj \in Objects /\ child[cmd[g].obj].id \in Projects
<1>1. /\ cmd[g] \in Command /\ OpOf(cmd[g]) /\ Target(cmd[g]) /\ Typing
      /\ cmd[g].op \in Starters => ~closed
      /\ cmd[g].op # "none" => open
  BY CommandIs
<1>2. cmd[g].op \in Starters /\ cmd[g].list # <<>> /\ cmd[g].list \in Seq(Projects)
  BY <1>1 DEF OpOf, Command
<1>3. cmd[g].obj \in Objects /\ child[cmd[g].obj].id = Head(cmd[g].list)
  BY <1>1 DEF Target
<1> QED BY <1>1, <1>2, <1>3 DEF Starters

\* A step within Start, where the child's id stays and no process is new.
LEMMA StartKeeps ==
  ASSUME ManagerInv, NEW g \in Cmds, NEW r \in Command, cmd' = [cmd EXCEPT ![g] = r],
         cmd[g].pc \in StartLabels \ {"get"}, NEW l \in StartLabels \ {"get"}, Goes(cmd[g], r, l),
         child' \in [Objects -> Children], \A o \in Objects : child'[o].id = child[o].id,
         proc' = proc, Claims',
         UNCHANGED <<cfgVars, children, closed, open, events, rt, begun>>, panicked' = FALSE
  PROVE  ManagerInv'
<1>1. Typing /\ cmd[g].op \in Starters /\ OpOf(cmd[g]) /\ Target(cmd[g])
  BY StartIs
<1>2. Advances(g, r)
  BY <1>1, AdvancesTo
<1>3. Typing'
  BY <1>1, <1>2, TypingFrom DEF Typing, TypeOK, Advances, cfgVars
<1>4. Steady
  BY DEF Steady, Running
<1>5. Served'
  BY <1>1, ServedStays DEF Starters, StartLabels
<1>6. OpOf(r) /\ Target(r)
  BY <1>1 DEF OpOf, Target, Goes, StartLabels
<1>7. Caught(cmd[g])
  BY CommandIs
<1>8. Caught(r)' /\ Reloading(r)'
  BY <1>1, <1>7 DEF Caught, Reloading, Goes, StartLabels, Starters
<1>9. Control'
  BY <1>1, <1>2, <1>4, <1>5, <1>6, <1>8, MoveKeeps DEF Goes, StartLabels, Starters, cfgVars
<1> QED BY <1>3, <1>9 DEF ManagerInv

\* What a step of Start does to the claims, if other claims are on other children.
LEMMA StartClaims ==
  ASSUME ManagerInv, NEW g \in Cmds, NEW r \in Command, cmd' = [cmd EXCEPT ![g] = r],
         cmd[g].pc \in {"enter", "spawn", "running"}, NEW m \in {"spawn", "abort", "launch"}, Goes(cmd[g], r, m),
         m = "launch" => cmd[g].pc = "running", cmd[g].pc = "running" => m = "launch",
         Starting(g) \/ child[cmd[g].obj].state = "idle",
         NEW x \in States, Becomes(cmd[g].obj, x), m # "abort" => x # "idle", proc' = proc
  PROVE  Claims' /\ child' \in [Objects -> Children] /\ \A o \in Objects : child'[o].id = child[o].id
<1> DEFINE o == cmd[g].obj
<1>1. Typing /\ o \in Objects /\ cmd[g].op \in Starters
  BY StartIs DEF StartLabels
<1>3. /\ child' \in [Objects -> Children]
      /\ \A q \in Objects :
           /\ child'[q].id = child[q].id /\ child'[q].def = child[q].def
           /\ child'[q].cmd = child[q].cmd /\ child'[q].waitDone = child[q].waitDone
           /\ child'[q].state = IF q = o THEN x ELSE child[q].state
  BY DEF Becomes
<1>4. \A h \in Cmds : cmd'[h] = IF h = g THEN r ELSE cmd[h]
  BY <1>1 DEF Typing
<1>5. r.pc = m /\ r.obj = o /\ r.inc = cmd[g].inc
  BY DEF Goes
<1>6. \A h \in Cmds : h # g /\ Starting(h) => cmd[h].obj # o /\ cmd[h].obj \in Objects
  <2>1. \A h \in Cmds : Starting(h) => cmd[h].obj \in Objects
    BY StartIs DEF Starting, StartLabels
  <2> QED BY <2>1 DEF ManagerInv, Claims, Claimed
<1>7. \A i \in Inc : Serving(i) => proc[i].obj # o /\ proc[i].obj \in Objects
  BY DEF ManagerInv, Claims, Claimed, Courses, Serving
<1>8. \A i \in Inc : Serving(i)' <=> Serving(i)
  BY DEF Serving
<1>9. \A h \in Cmds : Starting(h)' <=> IF h = g THEN m \in {"spawn", "launch"} ELSE Starting(h)
  BY <1>4, <1>5 DEF Starting
<1> HIDE DEF o
<1>10. Claimed'
  BY <1>1, <1>3, <1>4, <1>5, <1>6, <1>7, <1>8, <1>9 DEF ManagerInv, Claims, Claimed
<1>11. Published'
  <2> SUFFICES ASSUME NEW h \in Cmds, cmd'[h].pc \in {"running", "launch"}
               PROVE  LET i == cmd'[h].inc IN
                      /\ i \in Inc /\ proc[i].obj = cmd'[h].obj /\ proc[i].os # "none" /\ proc[i].run = "none"
                      /\ child'[cmd'[h].obj].cmd = i /\ child'[cmd'[h].obj].waitDone = i
    BY DEF Published
  <2>1. cmd[h].pc \in {"running", "launch"} /\ cmd'[h].inc = cmd[h].inc /\ cmd'[h].obj = cmd[h].obj
    BY <1>4, <1>5 DEF o
  <2>2. cmd[h].obj \in Objects
    BY <2>1, StartIs DEF StartLabels
  <2> QED BY <1>3, <2>1, <2>2 DEF ManagerInv, Claims, Published
<1>12. Courses'
  <2>1. \A h \in Cmds : cmd[h].pc \in {"running", "launch"} =>
                          cmd'[h].pc \in {"running", "launch"} /\ cmd'[h].inc = cmd[h].inc
    BY <1>4, <1>5
  <2> QED BY <1>3, <2>1 DEF ManagerInv, Claims, Courses
<1>13. Owned'
  BY <1>3 DEF ManagerInv, Claims, Owned
<1> QED BY <1>3, <1>10, <1>11, <1>12, <1>13 DEF Claims

\* The child is idle, and claimed.
LEMMA StartEnterKeeps ==
  ASSUME ManagerInv, NEW g \in Cmds, StartEnter(g)
  PROVE  ManagerInv'
<1>1. cmd[g].pc = "enter" /\ ~panicked
  BY DEF StartEnter, At
<1>2. Typing /\ cmd[g] \in Command
  BY <1>1, StartIs DEF StartLabels
<1>3. CASE child[cmd[g].obj].state # "idle"
  BY <1>3, RefusedKeeps
<1>4. CASE child[cmd[g].obj].state = "idle"
  <2> DEFINE e == [cmd[g] EXCEPT !.pc = "spawn"]
  <2>1. cmd' = [cmd EXCEPT ![g] = e] /\ Goes(cmd[g], e, "spawn")
    BY <1>2, <1>4, PcSet DEF StartEnter, Typing, Labels, StartLabels
  <2> HIDE DEF e
  <2>2. PICK r \in Command : Goes(cmd[g], r, "spawn") /\ cmd' = [cmd EXCEPT ![g] = r]
    BY <2>1 DEF Goes
  <2>3. /\ child' = [child EXCEPT ![cmd[g].obj].state = "starting"] /\ proc' = proc
        /\ UNCHANGED <<cfgVars, children, closed, open, events, rt, begun>> /\ panicked' = FALSE
    BY <1>1, <1>4 DEF StartEnter, chanVars
  <2>4. Becomes(cmd[g].obj, "starting")
    BY <1>1, <1>2, <2>3, StartIs, StateSet DEF Typing, States, StartLabels
  <2>5. Claims' /\ child' \in [Objects -> Children] /\ \A o \in Objects : child'[o].id = child[o].id
    BY <1>1, <1>4, <2>2, <2>3, <2>4, StartClaims DEF States
  <2> QED BY <1>1, <2>2, <2>3, <2>5, StartKeeps DEF StartLabels
<1> QED BY <1>3, <1>4

\* Nothing is spawned.
LEMMA StartFailsKeeps ==
  ASSUME ManagerInv, NEW g \in Cmds, StartFails(g)
  PROVE  ManagerInv'
<1> DEFINE e == [cmd[g] EXCEPT !.pc = "abort"]
<1>1. cmd[g].pc = "spawn" /\ ~panicked /\ Starting(g)
  BY DEF StartFails, At, Starting
<1>2. Typing /\ cmd[g] \in Command
  BY <1>1, StartIs DEF StartLabels
<1>3. cmd' = [cmd EXCEPT ![g] = e] /\ Goes(cmd[g], e, "abort")
  BY <1>2, PcSet DEF StartFails, Typing, Labels, StartLabels
<1> HIDE DEF e
<1>4. PICK r \in Command : Goes(cmd[g], r, "abort") /\ cmd' = [cmd EXCEPT ![g] = r]
  BY <1>3 DEF Goes
<1>5. /\ child' = [child EXCEPT ![cmd[g].obj].state = "idle"] /\ proc' = proc
      /\ UNCHANGED <<cfgVars, children, closed, open, events, rt, begun>> /\ panicked' = FALSE
  BY <1>1 DEF StartFails, chanVars
<1>6. Becomes(cmd[g].obj, "idle")
  BY <1>1, <1>2, <1>5, StartIs, StateSet DEF Typing, States, StartLabels
<1>7. Claims' /\ child' \in [Objects -> Children] /\ \A o \in Objects : child'[o].id = child[o].id
  BY <1>1, <1>4, <1>5, <1>6, StartClaims DEF States
<1> QED BY <1>1, <1>4, <1>5, <1>7, StartKeeps DEF StartLabels

\* setState(running).
LEMMA StartRunningKeeps ==
  ASSUME ManagerInv, NEW g \in Cmds, StartRunning(g)
  PROVE  ManagerInv'
<1> DEFINE e == [cmd[g] EXCEPT !.pc = "launch"]
<1>1. cmd[g].pc = "running" /\ ~panicked /\ Starting(g)
  BY DEF StartRunning, At, Starting
<1>2. Typing /\ cmd[g] \in Command
  BY <1>1, StartIs DEF StartLabels
<1>3. cmd' = [cmd EXCEPT ![g] = e] /\ Goes(cmd[g], e, "launch")
  BY <1>2, PcSet DEF StartRunning, Typing, Labels, StartLabels
<1> HIDE DEF e
<1>4. PICK r \in Command : Goes(cmd[g], r, "launch") /\ cmd' = [cmd EXCEPT ![g] = r]
  BY <1>3 DEF Goes
<1>5. /\ child' = [child EXCEPT ![cmd[g].obj].state = "running"] /\ proc' = proc
      /\ UNCHANGED <<cfgVars, children, closed, open, events, rt, begun>> /\ panicked' = FALSE
  BY <1>1 DEF StartRunning, chanVars
<1>6. Becomes(cmd[g].obj, "running")
  BY <1>1, <1>2, <1>5, StartIs, StateSet DEF Typing, States, StartLabels
<1>7. Claims' /\ child' \in [Objects -> Children] /\ \A o \in Objects : child'[o].id = child[o].id
  BY <1>1, <1>4, <1>5, <1>6, StartClaims DEF States
<1> QED BY <1>1, <1>4, <1>5, <1>7, StartKeeps DEF StartLabels

\* The members of a group that are left.
LEMMA TailIn ==
  ASSUME NEW s \in Seq(Projects), s # <<>>, Len(s) # 1
  PROVE  Tail(s) \in Seq(Projects) /\ Tail(s) # <<>> /\ ToSet(Tail(s)) \subseteq ToSet(s)
<1> DEFINE k == Len(s)
<1>0. k # 0 /\ k # 1 /\ k \in Nat /\ Tail(s) \in Seq(Projects)
  BY EmptySeq, HeadTailProperties
<1> HIDE DEF k
<1>a. k > 1
  BY <1>0
<1>1. Tail(s) \in Seq(Projects) /\ Len(s) \in Nat /\ Len(s) > 1
  BY <1>0, <1>a DEF k
<1>2. Len(Tail(s)) = Len(s) - 1 /\ \A n \in 1 .. Len(s) - 1 : Tail(s)[n] = s[n + 1]
  BY <1>1
<1>3. Tail(s) # <<>>
  <2>1. Len(Tail(s)) # 0
    BY <1>1, <1>2
  <2> QED BY <1>1, <2>1, EmptySeq
<1>4. ASSUME NEW n \in DOMAIN Tail(s) PROVE Tail(s)[n] \in ToSet(s)
  <2>1. n \in 1 .. Len(s) - 1
    BY <1>1, <1>2
  <2>2. Tail(s)[n] = s[n + 1] /\ n + 1 \in DOMAIN s
    BY <1>1, <1>2, <2>1
  <2> QED BY <2>2 DEF ToSet
<1> QED BY <1>1, <1>3, <1>4 DEF ToSet

\* Started, and the run goroutine is launched.
LEMMA StartLaunchKeeps ==
  ASSUME ManagerInv, NEW g \in Cmds, StartLaunch(g)
  PROVE  ManagerInv'
<1> DEFINE o == cmd[g].obj
           i == cmd[g].inc
           e == IF Len(cmd[g].list) = 1 THEN Idle
                ELSE [cmd[g] EXCEPT !.pc = "get", !.list = Tail(cmd[g].list), !.obj = 0, !.inc = 0]
<1>1. cmd[g].pc = "launch" /\ ~panicked /\ Starting(g)
  BY DEF StartLaunch, At, Starting
<1>2. /\ Typing /\ cmd[g] \in Command /\ OpOf(cmd[g]) /\ cmd[g].op \in Starters /\ open /\ ~closed
      /\ o \in Objects /\ child[o].id \in Projects
  BY <1>1, StartIs DEF StartLabels
<1>3. i \in Inc /\ proc[i].obj = o /\ proc[i].os # "none" /\ proc[i].run = "none" /\ child[o].cmd = i /\ child[o].waitDone = i
  BY <1>1 DEF ManagerInv, Claims, Published
<1>4. /\ proc' \in [Inc -> Processes]
      /\ \A j \in Inc : /\ proc'[j].obj = proc[j].obj /\ proc'[j].os = proc[j].os
                        /\ proc'[j].serves = proc[j].serves /\ proc'[j].done = proc[j].done
                        /\ proc'[j].run = IF j = i THEN "enter" ELSE proc[j].run
  <2>1. proc \in [Inc -> Processes] /\ "enter" \in RunStates /\ proc' = [proc EXCEPT ![i].run = "enter"]
    BY <1>2 DEF StartLaunch, Typing, RunStates
  <2> QED BY <1>3, <2>1, RunSetTo
<1>5. events' \in Seq(PidEvents) /\ Len(events') <= EventCap /\ panicked' = FALSE
  <2>1. Emit(child[o].id, i) /\ events \in Seq(PidEvents) /\ Len(events) <= EventCap
    BY <1>2 DEF StartLaunch, Typing, TypeOK
  <2> QED BY <1>1, <1>2, <1>3, <2>1, EmitKeeps
<1>6. cmd[g].list \in Seq(Projects) /\ cmd[g].list # <<>>
  BY <1>2 DEF Command, OpOf
<1> DEFINE Fits(r) == /\ OpOf(r) /\ r.op \in {cmd[g].op, "none"} /\ r.pc \in {"get", "ready"}
                      /\ r.held \in {cmd[g].held, {}} /\ r.waits \in {cmd[g].waits, {}}
                      /\ r.op \in Starters => ToSet(r.list) \subseteq ToSet(cmd[g].list)
<1>7. e \in Command /\ Fits(e) /\ cmd' = [cmd EXCEPT ![g] = e]
  <2>1. CASE Len(cmd[g].list) = 1
    <3>1. e = Idle
      BY <2>1
    <3>2. /\ Idle \in Command /\ OpOf(Idle) /\ Idle.op = "none" /\ Idle.pc = "ready"
          /\ Idle.held = {} /\ Idle.waits = {}
      <4>1. Configs # {}
        BY <1>2 DEF Typing, TypeOK
      <4> QED BY <4>1, IdleFits, IdleIs
    <3>3. cmd' = [cmd EXCEPT ![g] = Idle]
      BY <2>1 DEF StartLaunch
    <3> QED BY <3>1, <3>2, <3>3 DEF Starters
  <2>2. CASE Len(cmd[g].list) # 1
    <3> DEFINE t == Tail(cmd[g].list)
               f == [cmd[g] EXCEPT !.pc = "get", !.list = t, !.obj = 0, !.inc = 0]
    <3>1. t \in Seq(Projects) /\ t # <<>> /\ ToSet(t) \subseteq ToSet(cmd[g].list)
      BY <1>6, <2>2, TailIn
    <3>3. e = f /\ cmd' = [cmd EXCEPT ![g] = f]
      BY <1>2, <2>2 DEF StartLaunch, Typing
    <3> HIDE DEF t
    <3>4. /\ f \in Command /\ f.pc = "get" /\ f.op = cmd[g].op /\ f.list = t
          /\ f.held = cmd[g].held /\ f.waits = cmd[g].waits /\ f.gone = cmd[g].gone
      BY <1>2, <3>1 DEF Command, Labels, StartLabels
    <3> HIDE DEF f, e
    <3>5. OpOf(f)
      BY <1>2, <3>1, <3>4 DEF OpOf, StartLabels, Starters
    <3> QED BY <3>1, <3>3, <3>4, <3>5
  <2> QED BY <2>1, <2>2
<1> HIDE DEF e, Fits
<1>8. PICK r \in Command : Fits(r) /\ cmd' = [cmd EXCEPT ![g] = r]
  BY <1>7
<1>9. /\ OpOf(r) /\ r.op \in {cmd[g].op, "none"} /\ r.pc \in {"get", "ready"}
      /\ r.held \in {cmd[g].held, {}} /\ r.waits \in {cmd[g].waits, {}}
      /\ r.op \in Starters => ToSet(r.list) \subseteq ToSet(cmd[g].list)
  BY <1>8 DEF Fits
<1>10. child' = child /\ UNCHANGED <<cfgVars, children, closed, open, rt, begun>>
  BY DEF StartLaunch
<1>11. Advances(g, r)
  BY <1>2, <1>8, AdvancesTo
<1>12. Typing'
  BY <1>2, <1>4, <1>5, <1>10, <1>11, TypingFrom DEF Typing, TypeOK, Advances, cfgVars
<1>13. Steady
  BY <1>2, <1>4, <1>10 DEF Steady
<1>14. Served'
  BY <1>1, <1>2, <1>8, <1>10, ServedStays DEF Starters
<1>15. Target(r) /\ Caught(r)' /\ Reloading(r)'
  <2>1. Caught(cmd[g])
    BY CommandIs
  <2>2. cmd[g].held \subseteq Inc /\ cmd[g].waits \subseteq Inc
    BY <1>2 DEF Command
  <2> QED BY <1>2, <1>4, <1>9, <2>1, <2>2 DEF Target, Caught, Reloading, StartLabels, Starters
<1>16. Control'
  BY <1>2, <1>9, <1>10, <1>11, <1>13, <1>14, <1>15, MoveKeeps DEF Starters, cfgVars
<1>17. \A h \in Cmds : /\ cmd'[h] = IF h = g THEN r ELSE cmd[h]
                       /\ Starting(h)' <=> h # g /\ Starting(h)
  BY <1>9, <1>11 DEF Advances, Starting
<1>18. \A j \in Inc : Serving(j)' <=> j = i \/ Serving(j)
  BY <1>4 DEF Serving
<1>19. \A h \in Cmds : h # g /\ Starting(h) => cmd[h].obj # o
  BY <1>1 DEF ManagerInv, Claims, Claimed
<1>20. Claimed'
  <2>1. (\A j \in Inc : Serving(j) => proc[j].obj # o) /\ child[o].state # "idle"
    BY <1>1 DEF ManagerInv, Claims, Claimed
  <2> QED BY <1>3, <1>4, <1>10, <1>17, <1>18, <1>19, <2>1 DEF ManagerInv, Claims, Claimed
<1>21. Published'
  <2> SUFFICES ASSUME NEW h \in Cmds, cmd'[h].pc \in {"running", "launch"}
               PROVE  LET k == cmd'[h].inc IN
                      /\ k \in Inc /\ proc'[k].obj = cmd'[h].obj /\ proc'[k].os # "none" /\ proc'[k].run = "none"
                      /\ child[cmd'[h].obj].cmd = k /\ child[cmd'[h].obj].waitDone = k
    BY <1>10 DEF Published
  <2>1. h # g /\ cmd'[h] = cmd[h] /\ Starting(h)
    BY <1>9, <1>17 DEF Starting
  <2>2. cmd[h].obj # o
    BY <1>19, <2>1
  <2> QED BY <1>3, <1>4, <2>1, <2>2 DEF ManagerInv, Claims, Published
<1>22. Courses'
  <2>1. ASSUME NEW j \in Inc, j # i, proc[j].os # "none", proc[j].run = "none"
        PROVE  \E h \in Cmds : cmd'[h].pc \in {"running", "launch"} /\ cmd'[h].inc = j
    <3>1. PICK h \in Cmds : cmd[h].pc \in {"running", "launch"} /\ cmd[h].inc = j
      BY <2>1 DEF ManagerInv, Claims, Courses
    <3> QED BY <1>17, <2>1, <3>1
  <2>2. ~proc[i].done
    BY <1>3 DEF ManagerInv, Claims, Courses
  <2> QED BY <1>2, <1>3, <1>4, <1>10, <2>1, <2>2 DEF ManagerInv, Claims, Courses
<1>23. Owned'
  <2>1. \A q \in Objects : child[q].cmd \in Inc \cup {0}
    <3>1. \A q \in Objects : child[q] \in Children
      BY <1>2 DEF Typing
    <3> QED BY <3>1 DEF Children
  <2> QED BY <1>4, <1>10, <2>1 DEF ManagerInv, Claims, Owned
<1> QED BY <1>12, <1>16, <1>20, <1>21, <1>22, <1>23 DEF ManagerInv, Claims

-----------------------------------------------------------------------------
(* A new child, a new process *)

\* The number of a new object.
LEMMA FreshIs ==
  ASSUME Typing, Numbered, Cardinality(Created) + 1 \in Objects
  PROVE  \E n \in 0 .. MaxChildren : /\ Created = 1 .. n /\ Cardinality(Created) = n
                                     /\ n + 1 \in Objects /\ child[n + 1].id = "none"
<1>1. PICK n \in 0 .. MaxChildren : Created = 1 .. n
  BY DEF Numbered
<1>2. Cardinality(Created) = n
  BY <1>1, FS_Interval
<1>3. n + 1 \in Objects /\ n + 1 \notin Created
  BY <1>1, <1>2
<1> QED BY <1>1, <1>2, <1>3 DEF Created

\* Nobody has to do with an object that there is not yet.
LEMMA FreshFree ==
  ASSUME ManagerInv, NEW o \in Objects, child[o].id = "none"
  PROVE  /\ \A i \in Inc : proc[i].os # "none" => proc[i].obj # o
         /\ \A p \in Projects : children[p] # o
         /\ \A h \in Cmds : Target(cmd[h]) /\ (Starting(h) => cmd[h].obj # o)
<1>1. \A p \in Projects : children[p] # o
  BY ManagerAssumption DEF ManagerInv, Control, Mapped, Objects
<1>2. \A i \in Inc : proc[i].os # "none" => proc[i].obj # o
  BY DEF ManagerInv, Claims, Courses
<1>3. \A h \in Cmds : Starting(h) => child[cmd[h].obj].id \in Projects
  BY StartIs DEF Starting, StartLabels
<1>4. \A h \in Cmds : Target(cmd[h])
  BY DEF ManagerInv, Control, Commands
<1> QED BY <1>1, <1>2, <1>3, <1>4, ManagerAssumption

\* getOrCreate makes a child of a project that is configured.
LEMMA CreateKeeps ==
  ASSUME ManagerInv, NEW g \in Cmds, GetOrCreate(g),
         LET p == Head(cmd[g].list) IN children[p] = 0 /\ p \in DOMAIN cfg.projects
  PROVE  ManagerInv'
<1> DEFINE p == Head(cmd[g].list)
           o == Cardinality(Created) + 1
           new == [NoChild EXCEPT !.id = p, !.def = cfg.projects[p]]
           e == IF cmd[g].op = "Restart" THEN [cmd[g] EXCEPT !.obj = o, !.pc = "stop", !.found = {o}]
                                         ELSE [cmd[g] EXCEPT !.obj = o, !.pc = "enter"]
<1>1. cmd[g].pc = "get" /\ ~panicked /\ ~Starting(g)
  BY DEF GetOrCreate, At, Starting
<1>2. /\ cmd[g] \in Command /\ OpOf(cmd[g]) /\ Caught(cmd[g]) /\ Reloading(cmd[g]) /\ Typing
      /\ (cmd[g].op \in Starters => ~closed /\ open /\ \A h \in Cmds : cmd[h].op \notin {"Reload", "Close"})
  BY CommandIs
<1>3. /\ cmd[g].op \in Starters /\ cmd[g].list # <<>> /\ cmd[g].list \in Seq(Projects) /\ p \in Projects
      /\ ~closed /\ open /\ \A h \in Cmds : cmd[h].op \notin {"Reload", "Close"}
  BY <1>1, <1>2 DEF OpOf, StartLabels, Command
<1>4. /\ o \in Objects /\ children' = [children EXCEPT ![p] = o] /\ child' = [child EXCEPT ![o] = new]
      /\ cmd' = [cmd EXCEPT ![g] = e] /\ proc' = proc
      /\ UNCHANGED <<cfgVars, closed, chanVars, open, rt, begun>>
  BY <1>2 DEF GetOrCreate, Typing
<1>5. PICK n \in 0 .. MaxChildren : /\ Created = 1 .. n /\ o = n + 1 /\ n + 1 \in Objects
                                    /\ child[n + 1].id = "none"
  <2>1. Numbered
    BY DEF ManagerInv, Control
  <2> QED BY <1>2, <1>4, <2>1, FreshIs
<1>6. child[o].id = "none" /\ o # 0
  BY <1>4, <1>5 DEF Objects
<1>7. /\ new \in Children /\ new.id = p /\ new.state = "idle" /\ new.cmd = 0
  <2>1. cfg.projects[p] \in Definitions
    BY <1>2, <1>3 DEF Definitions, Typing, TypeOK
  <2> QED BY <1>3, <2>1 DEF NoChild, Children, States
<1> DEFINE Fits(r) == /\ r.op = cmd[g].op /\ r.list = cmd[g].list /\ r.obj = o
                      /\ r.held = cmd[g].held /\ r.waits = cmd[g].waits /\ r.gone = cmd[g].gone
                      /\ r.pc = IF r.op = "Restart" THEN "stop" ELSE "enter"
                      /\ r.op = "Restart" => r.found = {o}
<1> HIDE DEF new, o
<1>8. e \in Command /\ Fits(e)
  <2>1. CASE cmd[g].op = "Restart"
    <3> DEFINE f == [cmd[g] EXCEPT !.obj = o, !.pc = "stop", !.found = {o}]
    <3>1. /\ f \in Command /\ f.op = cmd[g].op /\ f.list = cmd[g].list /\ f.obj = o /\ f.pc = "stop"
          /\ f.held = cmd[g].held /\ f.waits = cmd[g].waits /\ f.gone = cmd[g].gone /\ f.found = {o}
      BY <1>2, <1>4 DEF Command, Labels, StartLabels
    <3>2. e = f
      BY <2>1
    <3> HIDE DEF f, e
    <3> QED BY <2>1, <3>1, <3>2
  <2>2. CASE cmd[g].op # "Restart"
    <3> DEFINE f == [cmd[g] EXCEPT !.obj = o, !.pc = "enter"]
    <3>1. /\ f \in Command /\ f.op = cmd[g].op /\ f.list = cmd[g].list /\ f.obj = o /\ f.pc = "enter"
          /\ f.held = cmd[g].held /\ f.waits = cmd[g].waits /\ f.gone = cmd[g].gone
      BY <1>2, <1>4 DEF Command, Labels, StartLabels
    <3>2. e = f
      BY <2>2
    <3> HIDE DEF f, e
    <3> QED BY <2>2, <3>1, <3>2
  <2> QED BY <2>1, <2>2
<1> HIDE DEF e, Fits
<1>9. PICK r \in Command : Fits(r) /\ cmd' = [cmd EXCEPT ![g] = r]
  BY <1>4, <1>8
<1>10. /\ r.op = cmd[g].op /\ r.list = cmd[g].list /\ r.obj = o
       /\ r.held = cmd[g].held /\ r.waits = cmd[g].waits /\ r.gone = cmd[g].gone
       /\ r.pc = IF r.op = "Restart" THEN "stop" ELSE "enter"
       /\ r.op = "Restart" => r.found = {o}
  BY <1>9 DEF Fits
<1>11. Advances(g, r)
  BY <1>2, <1>9, AdvancesTo
<1>12. \A h \in Cmds : cmd'[h] = IF h = g THEN r ELSE cmd[h]
  BY <1>11 DEF Advances
<1>13. /\ child' \in [Objects -> Children]
       /\ \A q \in Objects : child'[q] = IF q = o THEN new ELSE child[q]
  BY <1>2, <1>4, <1>7 DEF Typing
<1>14. /\ children' \in [Projects -> Objects \cup {0}]
       /\ \A q \in Projects : children'[q] = IF q = p THEN o ELSE children[q]
  BY <1>2, <1>3, <1>4 DEF Typing, TypeOK
<1>15. Typing'
  <2>1. /\ panicked' = FALSE /\ cfg' \in Configs /\ srvCfg' \in Configs
        /\ proc' \in [Inc -> Processes] /\ events' \in Seq(PidEvents) /\ Len(events') <= EventCap
        /\ rt' \in [Projects -> Inc \cup {0, Absent}] /\ begun' \in 0 .. MaxCommands
        /\ closed' \in BOOLEAN /\ open' \in BOOLEAN
    BY <1>1, <1>2, <1>4 DEF Typing, TypeOK, cfgVars, chanVars
  <2> QED BY <1>11, <1>13, <1>14, <2>1, TypingFrom DEF Advances
<1>16. /\ \A i \in Inc : proc[i].os # "none" => proc[i].obj # o
       /\ \A q \in Projects : children[q] # o
       /\ \A h \in Cmds : Target(cmd[h]) /\ (Starting(h) => cmd[h].obj # o)
  BY <1>4, <1>6, FreshFree
<1>17. Solo'
  <2>1. \A h \in Cmds : cmd'[h].op = cmd[h].op /\ cmd'[h].list = cmd[h].list
    BY <1>10, <1>12
  <2> QED BY <2>1 DEF ManagerInv, Control, Solo
<1>18. Closing' /\ Served'
  BY <1>3, <1>4, <1>10, <1>12 DEF ManagerInv, Control, Closing, Running, Served, cfgVars, Starters
<1>19. Numbered'
  <2>1. \A q \in Objects : q \in Created' <=> q = o \/ q \in Created
    BY <1>3, <1>7, <1>13, ManagerAssumption DEF Created
  <2>a. Created' \subseteq Objects /\ Created \subseteq Objects
    BY DEF Created
  <2>b. Created' = Created \cup {o}
    BY <1>4, <2>1, <2>a
  <2>c. Created' = 1 .. n + 1
    BY <1>5, <2>b
  <2>2. n + 1 \in 0 .. MaxChildren
    BY <1>5, ManagerAssumption DEF Objects
  <2> QED BY <2>c, <2>2 DEF Numbered
<1>20. Mapped'
  <2> SUFFICES ASSUME NEW q \in Projects, children'[q] # 0
               PROVE  child'[children'[q]].id = q /\ q \in DOMAIN cfg'.projects
    BY DEF Mapped
  <2>1. CASE q = p
    BY <1>4, <1>7, <1>13, <1>14, <2>1 DEF cfgVars
  <2>2. CASE q # p
    <3>1. children'[q] = children[q] /\ children[q] \in Objects /\ children[q] # o
      BY <1>2, <1>14, <1>16, <2>2 DEF Typing, TypeOK
    <3>2. child[children[q]].id = q /\ q \in DOMAIN cfg.projects
      BY <1>3, <3>1 DEF ManagerInv, Control, Mapped, Dropping, Objects
    <3> QED BY <1>4, <1>13, <3>1, <3>2 DEF cfgVars
  <2> QED BY <2>1, <2>2
<1>21. Reachable'
  <2> SUFFICES ASSUME NEW i \in Inc, Alive(i) PROVE children'[child'[proc[i].obj].id] = proc[i].obj
    BY <1>4 DEF Reachable, Of, Alive
  <2>1. /\ proc[i].obj \in Objects /\ proc[i].obj # o /\ children[child[proc[i].obj].id] = proc[i].obj
        /\ child[proc[i].obj].id # "none" /\ proc[i].obj # 0
    BY <1>16 DEF Alive, ManagerInv, Claims, Courses, Control, Reachable, Of, Objects
  <2>2. child[proc[i].obj].id \in Projects
    <3>1. child[proc[i].obj] \in Children
      BY <1>2, <2>1 DEF Typing
    <3> QED BY <2>1, <3>1 DEF Children
  <2> QED BY <1>13, <1>14, <2>1, <2>2
<1>22. Commands'
  <2>1. ASSUME NEW h \in Cmds PROVE OpOf(cmd[h])' /\ Target(cmd[h])' /\ Caught(cmd[h])' /\ Reloading(cmd[h])'
    <3>1. PICK s \in Command : s = cmd'[h] /\ s = IF h = g THEN r ELSE cmd[h]
      BY <1>12, <1>15 DEF Typing
    <3>2. OpOf(cmd[h]) /\ Caught(cmd[h]) /\ Target(cmd[h]) /\ cmd[h] \in Command
      BY CommandIs
    <3>3. OpOf(s)
      BY <1>2, <1>3, <1>10, <3>1, <3>2 DEF OpOf, StartLabels, Starters
    <3>4. Caught(s)'
      BY <1>2, <1>4, <1>10, <3>1, <3>2 DEF Caught, Alive
    <3>5. Reloading(s)'
      BY <1>3, <1>10, <3>1 DEF Reloading
    <3>6. Target(s)'
      <4>1. CASE h = g
        BY <1>4, <1>7, <1>10, <1>13, <1>14, <3>1, <4>1 DEF Target
      <4>2. CASE h # g
        <5> SUFFICES ASSUME s.pc \in StartLabels \ {"get"} \/ s.pc = "again" \/ (s.pc = "stop" /\ s.op = "Restart")
                     PROVE  s.obj \in Objects /\ child'[s.obj].id = Head(s.list) /\ children'[Head(s.list)] = s.obj
          BY DEF Target
        <5>1. /\ s.obj \in Objects /\ child[s.obj].id = Head(s.list) /\ children[Head(s.list)] = s.obj
              /\ s.op \in Starters /\ s.list # <<>>
          BY <3>1, <3>2, <4>2 DEF Target, OpOf, Starters
        <5>2. Head(s.list) \in Projects
          BY <5>1 DEF Command
        <5> QED BY <1>6, <1>13, <1>14, <1>16, <5>1, <5>2 DEF Objects
      <4> QED BY <4>1, <4>2
    <3> QED BY <3>1, <3>3, <3>4, <3>5, <3>6 DEF OpOf, Target, Caught, Reloading, Hands
  <2> QED BY <2>1 DEF Commands
<1>23. Claimed'
  <2>1. \A h \in Cmds : Starting(h)' => h # g /\ Starting(h) /\ cmd'[h] = cmd[h] /\ cmd[h].obj # o /\ cmd[h].obj \in Objects
    <3>1. \A h \in Cmds : Starting(h) => cmd[h].obj \in Objects
      BY StartIs DEF Starting, StartLabels
    <3> QED BY <1>10, <1>12, <1>16, <3>1 DEF Starting
  <2>2. \A i \in Inc : Serving(i)' => Serving(i) /\ proc[i].obj # o /\ proc[i].obj \in Objects
    BY <1>4, <1>16 DEF Serving, ManagerInv, Claims, Courses
  <2> QED BY <1>4, <1>13, <2>1, <2>2 DEF ManagerInv, Claims, Claimed
<1>24. Published'
  <2> SUFFICES ASSUME NEW h \in Cmds, cmd'[h].pc \in {"running", "launch"}
               PROVE  LET i == cmd'[h].inc IN
                      /\ i \in Inc /\ proc'[i].obj = cmd'[h].obj /\ proc'[i].os # "none" /\ proc'[i].run = "none"
                      /\ child'[cmd'[h].obj].cmd = i /\ child'[cmd'[h].obj].waitDone = i
    BY DEF Published
  <2>1. h # g /\ cmd'[h] = cmd[h] /\ Starting(h)
    BY <1>10, <1>12 DEF Starting
  <2>2. cmd[h].obj # o /\ cmd[h].obj \in Objects
    BY <1>16, <2>1, StartIs DEF Starting, StartLabels
  <2> QED BY <1>4, <1>13, <2>1, <2>2 DEF ManagerInv, Claims, Published
<1>25. Courses'
  <2>1. \A h \in Cmds : cmd[h].pc \in {"running", "launch"} => cmd'[h] = cmd[h]
    BY <1>1, <1>12
  <2>2. \A i \in Inc : proc[i].os # "none" => proc[i].obj \in Objects /\ proc[i].obj # o
    BY <1>16 DEF ManagerInv, Claims, Courses
  <2> QED BY <1>4, <1>13, <2>1, <2>2 DEF ManagerInv, Claims, Courses
<1>26. Owned'
  BY <1>4, <1>7, <1>13 DEF ManagerInv, Claims, Owned
<1> QED BY <1>15, <1>17, <1>18, <1>19, <1>20, <1>21, <1>22, <1>23, <1>24, <1>25, <1>26 DEF ManagerInv, Control, Claims

\* startPTY: a process that nobody has yet.
LEMMA StartSpawnKeeps ==
  ASSUME ManagerInv, NEW g \in Cmds, StartSpawn(g)
  PROVE  ManagerInv'
<1> DEFINE o == cmd[g].obj
<1>1. cmd[g].pc = "spawn" /\ ~panicked /\ Starting(g)
  BY DEF StartSpawn, At, Starting
<1>2. /\ Typing /\ cmd[g] \in Command /\ OpOf(cmd[g]) /\ Target(cmd[g]) /\ cmd[g].op \in Starters /\ open /\ ~closed
      /\ o \in Objects /\ child[o].id \in Projects
  BY <1>1, StartIs DEF StartLabels
<1>3. \A h \in Cmds : cmd[h].op \notin {"Reload", "Close"}
  BY <1>2, CommandIs
<1>4. PICK i \in Inc : /\ proc[i].os = "none"
                       /\ proc' = [proc EXCEPT ![i] = [NoProc EXCEPT !.obj = o, !.os = "alive"]]
                       /\ child' = [child EXCEPT ![o] = [child[o] EXCEPT !.cmd = i, !.waitDone = i]]
                       /\ cmd' = [cmd EXCEPT ![g] = [cmd[g] EXCEPT !.inc = i, !.pc = "running"]]
  BY <1>2 DEF StartSpawn, Typing
<1>5. UNCHANGED <<cfgVars, children, closed, chanVars, open, rt, begun>>
  BY DEF StartSpawn
<1> DEFINE np == [NoProc EXCEPT !.obj = o, !.os = "alive"]
           nc == [child[o] EXCEPT !.cmd = i, !.waitDone = i]
           e == [cmd[g] EXCEPT !.inc = i, !.pc = "running"]
<1>6. /\ np \in Processes /\ np.obj = o /\ np.os = "alive" /\ np.run = "none" /\ ~np.done
  BY <1>2 DEF NoProc, Processes, OsStates, RunStates
<1>7. /\ nc \in Children /\ nc.id = child[o].id /\ nc.state = child[o].state /\ nc.cmd = i /\ nc.waitDone = i
  <2>1. child[o] \in Children
    BY <1>2 DEF Typing
  <2> QED BY <2>1 DEF Children
<1>8. /\ e \in Command /\ e.op = cmd[g].op /\ e.list = cmd[g].list /\ e.obj = o /\ e.inc = i /\ e.pc = "running"
      /\ e.held = cmd[g].held /\ e.waits = cmd[g].waits /\ e.gone = cmd[g].gone
  BY <1>2 DEF Command, Labels, StartLabels
<1> HIDE DEF np, nc, e
<1>9. /\ proc' \in [Inc -> Processes] /\ \A j \in Inc : proc'[j] = IF j = i THEN np ELSE proc[j]
  BY <1>2, <1>4, <1>6 DEF np, Typing
<1>10. /\ child' \in [Objects -> Children] /\ \A q \in Objects : child'[q] = IF q = o THEN nc ELSE child[q]
  BY <1>2, <1>4, <1>7 DEF nc, Typing
<1>11. /\ cmd' \in [Cmds -> Command] /\ \A h \in Cmds : cmd'[h] = IF h = g THEN e ELSE cmd[h]
  BY <1>2, <1>4, <1>8 DEF e, Typing
<1>12. Typing'
  <2>1. /\ panicked' = FALSE /\ cfg' \in Configs /\ srvCfg' \in Configs
        /\ children' \in [Projects -> Objects \cup {0}] /\ events' \in Seq(PidEvents) /\ Len(events') <= EventCap
        /\ rt' \in [Projects -> Inc \cup {0, Absent}] /\ begun' \in 0 .. MaxCommands
        /\ closed' \in BOOLEAN /\ open' \in BOOLEAN
    BY <1>1, <1>2, <1>5 DEF Typing, TypeOK, cfgVars, chanVars
  <2> QED BY <1>9, <1>10, <1>11, <2>1, TypingFrom
<1>13. \A h \in Cmds : /\ cmd'[h].op = cmd[h].op /\ cmd'[h].list = cmd[h].list /\ cmd'[h].obj = cmd[h].obj
                       /\ cmd'[h].held = cmd[h].held /\ cmd'[h].waits = cmd[h].waits /\ cmd'[h].gone = cmd[h].gone
                       /\ h # g => cmd'[h] = cmd[h]
  BY <1>8, <1>11
<1>14. \A q \in Objects : child'[q].id = child[q].id /\ child'[q].state = child[q].state
  BY <1>7, <1>10
<1>15. proc[i].run = "none" /\ \A j \in Inc : proc'[j].run = proc[j].run
  <2>1. proc[i].run = "none"
    BY <1>4 DEF ManagerInv, Claims, Courses
  <2> QED BY <1>6, <1>9, <2>1
<1>16. Solo'
  BY <1>13 DEF ManagerInv, Control, Solo
<1>17. Closing' /\ Served'
  <2>1. \A h \in Cmds : cmd[h].pc # "close"
    BY <1>3, CommandIs DEF OpOf
  <2>2. \A h \in Cmds : cmd'[h].pc # "close"
    BY <1>8, <1>11, <2>1
  <2>3. Closing'
    BY <1>2, <1>3, <1>5, <1>13, <2>2 DEF Closing
  <2> QED BY <1>3, <1>5, <2>3 DEF ManagerInv, Control, Served, cfgVars
<1>18. Numbered'
  BY <1>14 DEF ManagerInv, Control, Numbered, Created
<1>19. Mapped'
  <2>1. \A p \in Projects : children[p] # 0 => children[p] \in Objects
    BY <1>2 DEF Typing, TypeOK
  <2>2. \A p \in Projects : ~Dropping(p)
    BY <1>3 DEF Dropping
  <2> QED BY <1>5, <1>14, <2>1, <2>2 DEF ManagerInv, Control, Mapped, cfgVars
<1>20. Reachable'
  <2> SUFFICES ASSUME NEW j \in Inc, Alive(j)' PROVE children[child'[proc'[j].obj].id] = proc'[j].obj
    BY <1>5 DEF Reachable, Of
  <2>1. CASE j = i
    <3>1. children[child[o].id] = o
      BY <1>1, <1>2 DEF Target, StartLabels
    <3> QED BY <1>2, <1>6, <1>9, <1>14, <2>1, <3>1
  <2>2. CASE j # i
    <3>1. Alive(j) /\ proc'[j].obj = proc[j].obj /\ proc[j].obj \in Objects
      BY <1>9, <2>2 DEF Alive, ManagerInv, Claims, Courses
    <3> QED BY <1>14, <3>1 DEF ManagerInv, Control, Reachable, Of
  <2> QED BY <2>1, <2>2
<1>21. \A h \in Cmds : h # g /\ cmd[h].op = "Restart" /\ (cmd[h].pc = "again" \/ cmd[h].pc = "stop") => cmd[h].obj # o
  <2> SUFFICES ASSUME NEW h \in Cmds, h # g, cmd[h].op = "Restart", cmd[h].pc = "again" \/ cmd[h].pc = "stop",
                      cmd[h].obj = o
               PROVE  FALSE
    OBVIOUS
  <2>1. cmd[h] \in Command /\ OpOf(cmd[h]) /\ Target(cmd[h])
    BY CommandIs
  <2>2. /\ cmd[h].list # <<>> /\ cmd[h].list \in Seq(Projects) /\ child[o].id = Head(cmd[h].list)
    BY <2>1 DEF Target, OpOf, Starters, Command
  <2>3. cmd[g].list # <<>> /\ cmd[g].list \in Seq(Projects) /\ child[o].id = Head(cmd[g].list)
    BY <1>1, <1>2 DEF Target, OpOf, Command, StartLabels
  <2>4. Head(cmd[g].list) \in ToSet(cmd[g].list) /\ Head(cmd[g].list) \in ToSet(cmd[h].list)
    BY <2>2, <2>3 DEF ToSet
  <2> QED BY <1>2, <2>4 DEF ManagerInv, Control, Solo
<1>22. Commands'
  <2>1. ASSUME NEW h \in Cmds PROVE OpOf(cmd[h])' /\ Target(cmd[h])' /\ Caught(cmd[h])' /\ Reloading(cmd[h])'
    <3>1. PICK s \in Command : s = cmd'[h] /\ s = IF h = g THEN e ELSE cmd[h]
      BY <1>11, <1>12 DEF Typing
    <3>2. OpOf(cmd[h]) /\ Caught(cmd[h]) /\ Target(cmd[h]) /\ cmd[h] \in Command
      BY CommandIs
    <3>3. OpOf(s)
      BY <1>2, <1>8, <3>1, <3>2 DEF OpOf, StartLabels, Starters
    <3>4. Target(s)'
      BY <1>1, <1>2, <1>5, <1>8, <1>14, <3>1, <3>2 DEF Target, StartLabels
    <3>5. Caught(s)'
      <4>1. \A j \in s.held \cup s.waits : proc'[j].os # "none"
        <5>1. s.held = cmd[h].held /\ s.waits = cmd[h].waits /\ s.held \subseteq Inc /\ s.waits \subseteq Inc
          BY <1>8, <3>1 DEF Command
        <5>2. \A j \in Inc : proc[j].os # "none" => proc'[j].os # "none"
          BY <1>6, <1>9
        <5> QED BY <3>2, <5>1, <5>2 DEF Caught
      <4>2. ASSUME s.op = "Restart", s.pc = "again" \/ (s.pc = "stop" /\ s.obj \notin s.found),
                   NEW j \in Inc, Alive(j)', proc'[j].obj = s.obj
            PROVE  j \in s.held \cup s.waits
        <5>1. h # g /\ s = cmd[h] /\ s.obj # o
          BY <1>8, <1>21, <3>1, <4>2
        <5>2. j # i /\ Alive(j) /\ proc[j].obj = s.obj
          BY <1>6, <1>9, <4>2, <5>1 DEF Alive
        <5> QED BY <3>2, <4>2, <5>1, <5>2 DEF Caught
      <4> QED BY <4>1, <4>2 DEF Caught
    <3>6. Reloading(s)'
      BY <1>3, <1>8, <3>1 DEF Reloading
    <3> QED BY <3>1, <3>3, <3>4, <3>5, <3>6 DEF OpOf, Target, Caught, Reloading, Hands
  <2> QED BY <2>1 DEF Commands
<1>23. \A h \in Cmds : Starting(h)' <=> Starting(h)
  BY <1>1, <1>8, <1>11 DEF Starting
<1>24. \A j \in Inc : /\ Serving(j)' <=> Serving(j)
                      /\ Serving(j) => j # i /\ proc'[j] = proc[j] /\ proc[j].obj \in Objects /\ proc[j].obj # o
  BY <1>1, <1>9, <1>15 DEF Serving, ManagerInv, Claims, Claimed, Courses
<1>25. \A h \in Cmds : Starting(h) => cmd[h].obj \in Objects /\ (h # g => cmd[h].obj # o)
  <2>1. \A h \in Cmds : Starting(h) => cmd[h].obj \in Objects
    BY StartIs DEF Starting, StartLabels
  <2> QED BY <1>1, <2>1 DEF ManagerInv, Claims, Claimed
<1>26. Claimed'
  <2>1. \A h \in Cmds : Starting(h) => child'[cmd'[h].obj].state # "idle"
    BY <1>13, <1>14, <1>25 DEF ManagerInv, Claims, Claimed
  <2> QED BY <1>13, <1>14, <1>23, <1>24, <2>1 DEF ManagerInv, Claims, Claimed
<1>27. Published'
  <2> SUFFICES ASSUME NEW h \in Cmds, cmd'[h].pc \in {"running", "launch"}
               PROVE  LET k == cmd'[h].inc IN
                      /\ k \in Inc /\ proc'[k].obj = cmd'[h].obj /\ proc'[k].os # "none" /\ proc'[k].run = "none"
                      /\ child'[cmd'[h].obj].cmd = k /\ child'[cmd'[h].obj].waitDone = k
    BY DEF Published
  <2>1. CASE h = g
    BY <1>2, <1>6, <1>7, <1>8, <1>9, <1>10, <1>11, <2>1
  <2>2. CASE h # g
    <3>1. cmd'[h] = cmd[h] /\ Starting(h) /\ cmd[h].obj # o /\ cmd[h].obj \in Objects
      BY <1>13, <1>25, <2>2 DEF Starting
    <3>2. cmd[h].inc # i
      BY <1>4, <2>2, <3>1 DEF ManagerInv, Claims, Published
    <3> QED BY <1>9, <1>10, <3>1, <3>2 DEF ManagerInv, Claims, Published
  <2> QED BY <2>1, <2>2
<1>28. Courses'
  <2> SUFFICES ASSUME NEW j \in Inc
               PROVE  /\ proc'[j].os = "none" => proc'[j].run = "none"
                      /\ proc'[j].os # "none" => proc'[j].obj \in Objects /\ child'[proc'[j].obj].id # "none"
                      /\ proc'[j].os # "none" /\ proc'[j].run = "none" =>
                           \E h \in Cmds : cmd'[h].pc \in {"running", "launch"} /\ cmd'[h].inc = j
                      /\ proc'[j].run \in {"none", "enter", "read"} => ~proc'[j].done
                      /\ proc'[j].run \notin {"none", "enter", "read"} => proc'[j].os = "reaped"
                      /\ proc'[j].run \in {"enter", "read", "exited", "clear"} => child'[proc'[j].obj].cmd = j
                      /\ proc'[j].run \in {"enter", "read"} => child'[proc'[j].obj].waitDone = j
                      /\ proc'[j].run = "read" => proc'[j].serves = j
    BY DEF Courses
  <2>1. CASE j = i
    <3>1. child[o].id # "none"
      BY <1>2, ManagerAssumption
    <3> QED BY <1>2, <1>6, <1>8, <1>9, <1>11, <1>14, <2>1, <3>1
  <2>2. CASE j # i
    <3>1. proc'[j] = proc[j]
      BY <1>9, <2>2
    <3>2. proc[j].os # "none" /\ proc[j].run = "none" =>
            \E h \in Cmds : cmd'[h].pc \in {"running", "launch"} /\ cmd'[h].inc = j
      <4>1. \A h \in Cmds : cmd[h].pc \in {"running", "launch"} => cmd'[h] = cmd[h]
        BY <1>1, <1>13
      <4> QED BY <4>1 DEF ManagerInv, Claims, Courses
    <3>3. proc[j].run \in {"enter", "read", "exited", "clear"} => child'[proc[j].obj] = child[proc[j].obj]
      BY <1>10, <1>24 DEF Serving
    <3>4. proc[j].os # "none" => child'[proc[j].obj].id # "none"
      BY <1>14 DEF ManagerInv, Claims, Courses
    <3> QED BY <3>1, <3>2, <3>3, <3>4 DEF ManagerInv, Claims, Courses
  <2> QED BY <2>1, <2>2
<1>29. Owned'
  <2> SUFFICES ASSUME NEW q \in Objects, child'[q].cmd # 0
               PROVE  proc'[child'[q].cmd].os # "none" /\ proc'[child'[q].cmd].obj = q
    BY DEF Owned
  <2>1. CASE q = o
    BY <1>6, <1>7, <1>9, <1>10, <2>1
  <2>2. CASE q # o
    <3>1. child'[q] = child[q] /\ child[q].cmd \in Inc
      <4>1. child[q] \in Children /\ child'[q] = child[q]
        BY <1>2, <1>10, <2>2 DEF Typing
      <4> QED BY <4>1 DEF Children
    <3>2. child[q].cmd # i
      BY <1>4, <3>1 DEF ManagerInv, Claims, Owned
    <3> QED BY <1>9, <3>1, <3>2 DEF ManagerInv, Claims, Owned
  <2> QED BY <2>1, <2>2
<1> QED BY <1>12, <1>16, <1>17, <1>18, <1>19, <1>20, <1>22, <1>26, <1>27, <1>28, <1>29 DEF ManagerInv, Control, Claims

-----------------------------------------------------------------------------
(* Reload and Close *)

\* Beside a reload or Close there is no other command.
LEMMA AloneIs ==
  ASSUME ManagerInv, NEW g \in Cmds, cmd[g].op \in {"Reload", "Close"}
  PROVE  \A h \in Cmds \ {g} : cmd[h].op = "none" /\ cmd[h].pc = "ready" /\ cmd[h] \in Command
                               /\ OpOf(cmd[h]) /\ Caught(cmd[h])
<1>1. \A h \in Cmds \ {g} : cmd[h].op = "none"
  BY DEF ManagerInv, Control, Solo
<1> QED BY <1>1, CommandIs DEF OpOf

\* A command that there is not asks for nothing.
LEMMA NoneFits ==
  ASSUME NEW r \in Command, r.op = "none", r.pc = "ready"
  PROVE  Target(r)' /\ Reloading(r)'
  BY DEF Target, Reloading, StartLabels

\* A stopped child leaves the map.
LEMMA DropEntryKeeps ==
  ASSUME ManagerInv, NEW g \in Cmds, NEW o \in Objects, DropEntry(g, o)
  PROVE  ManagerInv'
<1> DEFINE e == [cmd[g] EXCEPT !.gone = {}]
           d == child[o].id
<1>1. cmd[g].pc = "stop" /\ ~panicked /\ ~Starting(g) /\ o \in cmd[g].gone
  BY DEF DropEntry, At, Starting
<1>2. /\ cmd[g] \in Command /\ OpOf(cmd[g]) /\ Caught(cmd[g]) /\ Reloading(cmd[g]) /\ Typing
      /\ (cmd[g].op # "none" => open)
  BY CommandIs
<1>3. cmd[g].op = "Reload" /\ open
  BY <1>1, <1>2 DEF OpOf
<1>4. /\ cmd[g].found = {} /\ cmd[g].held \cup cmd[g].waits = {} /\ Hands(cmd[g]) = {o}
      /\ d \in cmd[g].drop \ cmd[g].todo /\ children[d] = o
      /\ \A i \in Inc : ~(Alive(i) /\ proc[i].obj = o)
      /\ cfg = cmd[g].new /\ (\A p \in cmd[g].drop : p \notin DOMAIN cfg.projects) /\ cmd[g].todo \subseteq cmd[g].drop
  <2>1. o \in Hands(cmd[g]) /\ \A q \in Hands(cmd[g]) : q = o
    BY <1>1, <1>2, <1>3 DEF Reloading, Hands
  <2> QED BY <1>1, <1>2, <1>3, <2>1 DEF Reloading
<1>5. /\ children' = [children EXCEPT ![d] = 0] /\ cmd' = [cmd EXCEPT ![g] = e]
      /\ UNCHANGED <<cfgVars, child, proc, closed, chanVars, open, rt, begun>>
  BY <1>2 DEF DropEntry, Typing
<1>6. d \in Projects /\ o # 0
  BY <1>2, <1>4 DEF Command, Objects
<1>7. /\ e \in Command /\ e.pc = "stop" /\ e.op = "Reload" /\ e.todo = cmd[g].todo /\ e.found = cmd[g].found
      /\ e.held = cmd[g].held /\ e.waits = cmd[g].waits /\ e.gone = {} /\ e.new = cmd[g].new
      /\ e.drop = cmd[g].drop
  BY <1>1, <1>2, <1>3 DEF Command
<1> HIDE DEF e, d
<1>8. Advances(g, e)
  BY <1>2, <1>5, <1>7, AdvancesTo
<1>9. /\ cmd' \in [Cmds -> Command] /\ \A h \in Cmds : cmd'[h] = IF h = g THEN e ELSE cmd[h]
  BY <1>8 DEF Advances
<1>10. /\ children' \in [Projects -> Objects \cup {0}]
       /\ \A q \in Projects : children'[q] = IF q = d THEN 0 ELSE children[q]
  BY <1>2, <1>5, <1>6 DEF Typing, TypeOK
<1>11. Typing'
  <2>1. /\ panicked' = FALSE /\ cfg' \in Configs /\ srvCfg' \in Configs /\ child' \in [Objects -> Children]
        /\ proc' \in [Inc -> Processes] /\ events' \in Seq(PidEvents) /\ Len(events') <= EventCap
        /\ rt' \in [Projects -> Inc \cup {0, Absent}] /\ begun' \in 0 .. MaxCommands
        /\ closed' \in BOOLEAN /\ open' \in BOOLEAN
    BY <1>1, <1>2, <1>5 DEF Typing, TypeOK, cfgVars, chanVars
  <2> QED BY <1>9, <1>10, <2>1, TypingFrom
<1>12. \A h \in Cmds \ {g} : cmd[h].op = "none" /\ cmd[h].pc = "ready" /\ cmd[h] \in Command /\ OpOf(cmd[h]) /\ Caught(cmd[h])
  BY <1>3, AloneIs
<1>13. Solo'
  BY <1>7, <1>9, <1>12 DEF Solo, Starters
<1>14. Closing' /\ Served'
  <2>1. Closing'
    BY <1>3, <1>5, <1>7, <1>9, <1>12 DEF ManagerInv, Control, Closing
  <2> QED BY <1>7, <1>9, <2>1 DEF Served
<1>15. Numbered'
  BY <1>5 DEF ManagerInv, Control, Numbered, Created
<1>16. Mapped'
  <2> SUFFICES ASSUME NEW p \in Projects, p # d, children[p] # 0
               PROVE  child[children[p]].id = p /\ (p \in DOMAIN cfg.projects \/ Dropping(p)')
    BY <1>5, <1>10 DEF Mapped, cfgVars
  <2>1. child[children[p]].id = p /\ (p \in DOMAIN cfg.projects \/ Dropping(p))
    BY DEF ManagerInv, Control, Mapped
  <2>2. ASSUME Dropping(p) PROVE Dropping(p)'
    <3>1. p \in cmd[g].todo \/ children[p] \in Hands(cmd[g])
      BY <1>12, <2>2 DEF Dropping
    <3>2. p \in cmd[g].todo
      BY <1>4, <2>1, <3>1 DEF d
    <3> QED BY <1>7, <1>9, <3>2 DEF Dropping
  <2> QED BY <2>1, <2>2
<1>17. Reachable'
  <2> SUFFICES ASSUME NEW i \in Inc, Alive(i) PROVE children'[child[proc[i].obj].id] = proc[i].obj
    BY <1>5 DEF Reachable, Of, Alive
  <2>1. children[child[proc[i].obj].id] = proc[i].obj /\ proc[i].obj # o
    BY <1>4 DEF ManagerInv, Control, Reachable, Of
  <2>2. child[proc[i].obj].id # d
    BY <1>4, <2>1
  <2>3. child[proc[i].obj].id \in Projects
    <3>1. proc[i].obj \in Objects /\ child[proc[i].obj].id # "none"
      BY DEF Alive, ManagerInv, Claims, Courses
    <3>2. child[proc[i].obj] \in Children
      BY <1>2, <3>1 DEF Typing
    <3> QED BY <3>1, <3>2 DEF Children
  <2> QED BY <1>10, <2>1, <2>2, <2>3
<1>18. Commands'
  <2>1. ASSUME NEW h \in Cmds PROVE OpOf(cmd[h])' /\ Target(cmd[h])' /\ Caught(cmd[h])' /\ Reloading(cmd[h])'
    <3>1. PICK s \in Command : s = cmd'[h] /\ s = IF h = g THEN e ELSE cmd[h]
      BY <1>9
    <3>2. CASE h = g
      <4>1. /\ s.pc = "stop" /\ s.op = "Reload" /\ s.todo = cmd[g].todo /\ s.found = {} /\ s.held = {} /\ s.waits = {}
            /\ s.gone = {} /\ s.new = cmd[g].new /\ s.drop = cmd[g].drop
        BY <1>4, <1>7, <3>1, <3>2
      <4>2. OpOf(s) /\ Target(s)' /\ Caught(s)'
        BY <4>1 DEF OpOf, Target, Caught, StartLabels, Starters
      <4>3. Reloading(s)'
        BY <1>4, <1>5, <4>1 DEF Reloading, Hands, cfgVars
      <4> QED BY <3>1, <4>2, <4>3 DEF OpOf, Target, Caught, Reloading, Hands
    <3>3. CASE h # g
      <4>1. s.op = "none" /\ s.pc = "ready" /\ OpOf(s) /\ Caught(s)
        BY <1>12, <3>1, <3>3
      <4>2. Target(s)' /\ Reloading(s)'
        BY <4>1, NoneFits
      <4>3. Caught(s)'
        BY <1>5, <4>1 DEF Caught
      <4> QED BY <3>1, <4>1, <4>2, <4>3 DEF OpOf, Target, Caught, Reloading, Hands
    <3> QED BY <3>2, <3>3
  <2> QED BY <2>1 DEF Commands
<1>19. Claims'
  BY <1>1, <1>5, <1>7, <1>8, ClaimsStay
<1> QED BY <1>11, <1>13, <1>14, <1>15, <1>16, <1>17, <1>18, <1>19 DEF ManagerInv, Control

\* Manager.Reload's first critical section.
LEMMA SwapKeeps ==
  ASSUME ManagerInv, NEW g \in Cmds, Swap(g)
  PROVE  ManagerInv'
<1> DEFINE old == DOMAIN cfg.projects
           new == DOMAIN cmd[g].new.projects
           e == [cmd[g] EXCEPT !.pc = "stop", !.seed = new \ old, !.drop = old \ new,
                               !.todo = {p \in old \ new : children[p] # 0}]
<1>1. cmd[g].pc = "swap" /\ ~panicked /\ ~Starting(g)
  BY DEF Swap, At, Starting
<1>2. /\ cmd[g] \in Command /\ OpOf(cmd[g]) /\ Caught(cmd[g]) /\ Reloading(cmd[g]) /\ Typing
      /\ (cmd[g].op # "none" => open)
  BY CommandIs
<1>3. cmd[g].op = "Reload" /\ open /\ cmd[g].new \in Configs
  BY <1>1, <1>2 DEF OpOf, Command
<1>4. cmd[g].found = {} /\ cmd[g].held = {} /\ cmd[g].waits = {} /\ cmd[g].gone = {}
  BY <1>1, <1>2, <1>3 DEF Reloading
<1>5. old \subseteq Projects /\ new \subseteq Projects
  BY <1>2, <1>3, ManagerAssumption DEF Typing, TypeOK
<1>6. /\ cfg' = cmd[g].new /\ cmd' = [cmd EXCEPT ![g] = e]
      /\ UNCHANGED <<srvCfg, objVars, closed, chanVars, open, rt, begun>>
  BY <1>2 DEF Swap, Typing
<1>7. /\ e \in Command /\ e.pc = "stop" /\ e.op = "Reload" /\ e.new = cmd[g].new /\ e.drop = old \ new
      /\ e.todo = {p \in old \ new : children[p] # 0}
      /\ e.found = {} /\ e.held = {} /\ e.waits = {} /\ e.gone = {}
  BY <1>2, <1>3, <1>4, <1>5 DEF Command, Labels
<1> HIDE DEF e
<1>8. Advances(g, e)
  BY <1>2, <1>6, <1>7, AdvancesTo
<1>9. /\ cmd' \in [Cmds -> Command] /\ \A h \in Cmds : cmd'[h] = IF h = g THEN e ELSE cmd[h]
  BY <1>8 DEF Advances
<1>10. Typing'
  <2>1. /\ panicked' = FALSE /\ cfg' \in Configs /\ srvCfg' \in Configs /\ child' \in [Objects -> Children]
        /\ children' \in [Projects -> Objects \cup {0}]
        /\ proc' \in [Inc -> Processes] /\ events' \in Seq(PidEvents) /\ Len(events') <= EventCap
        /\ rt' \in [Projects -> Inc \cup {0, Absent}] /\ begun' \in 0 .. MaxCommands
        /\ closed' \in BOOLEAN /\ open' \in BOOLEAN
    BY <1>1, <1>2, <1>3, <1>6 DEF Typing, TypeOK, objVars, chanVars
  <2> QED BY <1>9, <2>1, TypingFrom
<1>11. \A h \in Cmds \ {g} : cmd[h].op = "none" /\ cmd[h].pc = "ready" /\ cmd[h] \in Command /\ OpOf(cmd[h]) /\ Caught(cmd[h])
  BY <1>3, AloneIs
<1>12. Solo'
  BY <1>7, <1>9, <1>11 DEF Solo, Starters
<1>13. Closing' /\ Served'
  <2>1. Closing'
    BY <1>3, <1>6, <1>7, <1>9, <1>11 DEF ManagerInv, Control, Closing
  <2> QED BY <1>7, <1>9, <2>1 DEF Served
<1>14. Numbered' /\ Reachable'
  BY <1>6 DEF ManagerInv, Control, Numbered, Created, Reachable, Of, Alive, objVars
<1>15. Mapped'
  <2> SUFFICES ASSUME NEW p \in Projects, children[p] # 0
               PROVE  child[children[p]].id = p /\ (p \in new \/ Dropping(p)')
    BY <1>6 DEF Mapped, objVars
  <2>1. child[children[p]].id = p /\ p \in old
    BY <1>1, <1>11 DEF ManagerInv, Control, Mapped, Dropping
  <2>2. p \notin new => Dropping(p)'
    BY <1>7, <1>9, <2>1 DEF Dropping
  <2> QED BY <2>1, <2>2
<1>16. Commands'
  <2>1. ASSUME NEW h \in Cmds PROVE OpOf(cmd[h])' /\ Target(cmd[h])' /\ Caught(cmd[h])' /\ Reloading(cmd[h])'
    <3>1. PICK s \in Command : s = cmd'[h] /\ s = IF h = g THEN e ELSE cmd[h]
      BY <1>9
    <3>2. CASE h = g
      <4>1. /\ s.pc = "stop" /\ s.op = "Reload" /\ s.new = cmd[g].new /\ s.drop = old \ new
            /\ s.todo = {p \in old \ new : children[p] # 0}
            /\ s.found = {} /\ s.held = {} /\ s.waits = {} /\ s.gone = {}
        BY <1>7, <3>1, <3>2
      <4>2. OpOf(s) /\ Target(s)' /\ Caught(s)'
        BY <4>1 DEF OpOf, Target, Caught, StartLabels, Starters
      <4>3. Reloading(s)'
        BY <1>6, <4>1 DEF Reloading, Hands
      <4> QED BY <3>1, <4>2, <4>3 DEF OpOf, Target, Caught, Reloading, Hands
    <3>3. CASE h # g
      <4>1. s.op = "none" /\ s.pc = "ready" /\ OpOf(s) /\ Caught(s)
        BY <1>11, <3>1, <3>3
      <4>2. Target(s)' /\ Reloading(s)'
        BY <4>1, NoneFits
      <4>3. Caught(s)'
        BY <1>6, <4>1 DEF Caught, objVars
      <4> QED BY <3>1, <4>1, <4>2, <4>3 DEF OpOf, Target, Caught, Reloading, Hands
    <3> QED BY <3>2, <3>3
  <2> QED BY <2>1 DEF Commands
<1>17. Claims'
  BY <1>1, <1>6, <1>7, <1>8, ClaimsStay DEF objVars
<1> QED BY <1>10, <1>12, <1>13, <1>14, <1>15, <1>16, <1>17 DEF ManagerInv, Control

\* The channel is closed, and the last command over.
LEMMA CloseEventsKeeps ==
  ASSUME ManagerInv, NEW g \in Cmds, CloseEvents(g)
  PROVE  ManagerInv'
<1>1. /\ cmd[g].pc = "close" /\ ~panicked /\ ~Starting(g) /\ cmd' = [cmd EXCEPT ![g] = Idle] /\ open' = FALSE
      /\ UNCHANGED <<cfgVars, objVars, closed, chanVars, rt, begun>>
  BY DEF CloseEvents, At, Starting
<1>2. cmd[g] \in Command /\ OpOf(cmd[g]) /\ Typing
  BY CommandIs
<1>3. cmd[g].op = "Close" /\ closed /\ \A i \in Inc : ~Running(i)
  BY <1>1, <1>2 DEF OpOf, ManagerInv, Control, Closing
<1>4. /\ Idle \in Command /\ OpOf(Idle) /\ Target(Idle) /\ Caught(Idle) /\ Reloading(Idle)
      /\ Idle.op = "none" /\ Idle.pc = "ready"
  BY IdleFits
<1> DEFINE k == Idle
<1> HIDE DEF k
<1>5. Advances(g, k)
  BY <1>1, <1>2, <1>4, AdvancesTo DEF k
<1>6. /\ cmd' \in [Cmds -> Command] /\ \A h \in Cmds : cmd'[h] = IF h = g THEN k ELSE cmd[h]
  BY <1>5 DEF Advances
<1>7. /\ k \in Command /\ OpOf(k) /\ Target(k) /\ Caught(k) /\ Reloading(k) /\ k.op = "none" /\ k.pc = "ready"
  BY <1>4 DEF k
<1>8. \A h \in Cmds \ {g} : cmd[h].op = "none" /\ cmd[h].pc = "ready" /\ cmd[h] \in Command /\ OpOf(cmd[h]) /\ Caught(cmd[h])
  BY <1>3, AloneIs
<1>9. \A h \in Cmds : cmd'[h].op = "none" /\ cmd'[h].pc = "ready"
  BY <1>6, <1>7, <1>8
<1>10. Typing'
  <2>1. /\ panicked' = FALSE /\ cfg' \in Configs /\ srvCfg' \in Configs /\ child' \in [Objects -> Children]
        /\ children' \in [Projects -> Objects \cup {0}]
        /\ proc' \in [Inc -> Processes] /\ events' \in Seq(PidEvents) /\ Len(events') <= EventCap
        /\ rt' \in [Projects -> Inc \cup {0, Absent}] /\ begun' \in 0 .. MaxCommands
        /\ closed' \in BOOLEAN
    BY <1>1, <1>2 DEF Typing, TypeOK, objVars, chanVars, cfgVars
  <2>2. open' \in BOOLEAN
    BY <1>1
  <2> QED BY <1>6, <2>1, <2>2, TypingFrom
<1>11. Solo' /\ Closing'
  BY <1>1, <1>3, <1>9 DEF Solo, Closing, Running, objVars
<1>12. Served'
  BY <1>1, <1>3, <1>8 DEF ManagerInv, Control, Served, cfgVars
<1>13. Numbered' /\ Reachable'
  BY <1>1 DEF ManagerInv, Control, Numbered, Created, Reachable, Of, Alive, objVars
<1>14. Mapped'
  <2>1. \A p \in Projects : ~Dropping(p)
    BY <1>3, <1>8 DEF Dropping
  <2> QED BY <1>1, <2>1 DEF ManagerInv, Control, Mapped, objVars, cfgVars
<1>15. Commands'
  <2>1. ASSUME NEW h \in Cmds PROVE OpOf(cmd[h])' /\ Target(cmd[h])' /\ Caught(cmd[h])' /\ Reloading(cmd[h])'
    <3>1. PICK s \in Command : s = cmd'[h] /\ s = IF h = g THEN k ELSE cmd[h]
      BY <1>6
    <3>2. s.op = "none" /\ s.pc = "ready" /\ OpOf(s) /\ Caught(s)
      BY <1>7, <1>8, <3>1
    <3>3. Target(s)' /\ Reloading(s)'
      BY <3>2, NoneFits
    <3>4. Caught(s)'
      BY <1>1, <3>2 DEF Caught, objVars
    <3> QED BY <3>1, <3>2, <3>3, <3>4 DEF OpOf, Target, Caught, Reloading, Hands
  <2> QED BY <2>1 DEF Commands
<1>16. Claims'
  BY <1>1, <1>5, <1>7, ClaimsStay DEF objVars
<1> QED BY <1>10, <1>11, <1>12, <1>13, <1>14, <1>15, <1>16 DEF ManagerInv, Control

-----------------------------------------------------------------------------
(* A command begins *)

\* What it begins with, and that the environment lets it.
LEMMA BeginKeeps ==
  ASSUME ManagerInv, Uncrowded, NEW g \in Cmds, NEW o \in AllOps, NEW q \in Command, NEW r \in Command,
         Begin(g, o, q), cmd' = [cmd EXCEPT ![g] = r], r.op = o, r.list = q.list, r.held = {}, r.waits = {},
         r.found = {}, r.gone = {}, r.todo = {} \/ o # "Reload", r.pc \in {"get", "stop", "ids", "swap"},
         o = "Reload" => r.pc = "swap", o = "Restart" => r.pc = "get", OpOf(r),
         o = "Close" => closed' = TRUE, o # "Close" => closed' = closed
  PROVE  ManagerInv'
<1>1. /\ cmd[g].pc = "ready" /\ ~panicked /\ ~Starting(g)
      /\ begun + Weight(o) <= MaxCommands /\ begun' = begun + Weight(o)
      /\ UNCHANGED <<cfgVars, objVars, chanVars, open, rt>>
      /\ o \in Alone => Busy = {}
      /\ "Close" \in Alone => ~closed
      /\ \A h \in Busy : cmd[h].op \notin Alone /\ (Overlap \/ ~Collide(o, r.list, h))
  BY DEF Begin, At, Starting
<1>2. Typing /\ cmd[g] \in Command /\ OpOf(cmd[g])
  BY CommandIs
<1>3. Advances(g, r)
  BY <1>2, AdvancesTo
<1>4. /\ cmd' \in [Cmds -> Command] /\ \A h \in Cmds : cmd'[h] = IF h = g THEN r ELSE cmd[h]
  BY <1>3 DEF Advances
<1>5. closed = FALSE /\ open /\ closed' \in BOOLEAN
  <2>1. ~closed
    BY <1>1 DEF Uncrowded
  <2>2. open
    BY <2>1 DEF ManagerInv, Control, Closing
  <2>3. closed \in BOOLEAN /\ closed' \in BOOLEAN
    BY <1>2 DEF Typing
  <2> QED BY <2>1, <2>2, <2>3
<1>6. /\ \A h \in Cmds : h \notin Busy => cmd[h].op = "none"
      /\ g \notin Busy
  BY <1>1, CommandIs DEF Busy, OpOf
<1>7. /\ o \in {"Reload", "Close"} => \A h \in Cmds : cmd[h].op = "none"
      /\ \A h \in Cmds : cmd[h].op \notin {"Reload", "Close"}
  BY <1>1, <1>6 DEF Uncrowded
<1>8. \A h \in Cmds : cmd[h].op # "none" => ~Collide(o, r.list, h)
  BY <1>1, <1>6 DEF Uncrowded
<1>9. Typing'
  <2>1. begun' \in 0 .. MaxCommands
    BY <1>1, <1>2, ManagerAssumption DEF Typing, TypeOK, Weight
  <2>2. /\ panicked' = FALSE /\ cfg' \in Configs /\ srvCfg' \in Configs /\ child' \in [Objects -> Children]
        /\ children' \in [Projects -> Objects \cup {0}]
        /\ proc' \in [Inc -> Processes] /\ events' \in Seq(PidEvents) /\ Len(events') <= EventCap
        /\ rt' \in [Projects -> Inc \cup {0, Absent}] /\ open' \in BOOLEAN
    BY <1>1, <1>2 DEF Typing, TypeOK, objVars, chanVars, cfgVars
  <2> QED BY <1>4, <1>5, <2>1, <2>2, TypingFrom
<1>10. Solo'
  <2>1. ASSUME NEW h \in Cmds, NEW k \in Cmds, cmd'[h].op \in {"Reload", "Close"}, cmd'[k].op # "none"
        PROVE  h = k
    BY <1>4, <1>7, <2>1
  <2>2. ASSUME NEW h \in Cmds, NEW k \in Cmds, cmd'[h].op = "Restart", cmd'[k].op \in Starters, h # k,
               NEW p \in ToSet(cmd'[h].list)
        PROVE  p \notin ToSet(cmd'[k].list)
    <3>1. CASE h = g
      <4>1. cmd[k].op # "none" /\ ~Collide(o, r.list, k) /\ o = "Restart" /\ cmd'[k] = cmd[k] /\ cmd'[h] = r
        BY <1>4, <1>8, <2>2, <3>1 DEF Starters
      <4> QED BY <2>2, <4>1 DEF Collide
    <3>2. CASE k = g
      <4>1. cmd[h].op = "Restart" /\ ~Collide(o, r.list, h) /\ cmd'[h] = cmd[h] /\ cmd'[k] = r
        BY <1>4, <1>8, <2>2, <3>2
      <4> QED BY <2>2, <4>1 DEF Collide
    <3>3. CASE h # g /\ k # g
      BY <1>4, <2>2, <3>3 DEF ManagerInv, Control, Solo
    <3> QED BY <3>1, <3>2, <3>3
  <2> QED BY <2>1, <2>2 DEF Solo
<1>11. Closing'
  <2>1. \A h \in Cmds : cmd[h].pc # "close"
    BY <1>7, CommandIs DEF OpOf
  <2>2. \A h \in Cmds : cmd'[h].pc # "close"
    BY <1>4, <2>1
  <2>3. CASE o = "Close"
    <3>1. \A h \in Cmds : cmd'[h].op # "none" => cmd'[h].op = "Close"
      BY <1>4, <1>7, <2>3
    <3> QED BY <1>1, <1>5, <2>2, <2>3, <3>1 DEF Closing
  <2>4. CASE o # "Close"
    <3>1. closed' = FALSE /\ \A h \in Cmds : cmd'[h].op # "Close"
      BY <1>4, <1>5, <1>7, <2>4
    <3> QED BY <1>1, <1>5, <2>2, <3>1 DEF Closing
  <2> QED BY <2>3, <2>4
<1>12. Numbered' /\ Reachable'
  BY <1>1 DEF ManagerInv, Control, Numbered, Created, Reachable, Of, Alive, objVars
<1>13. Mapped'
  <2>1. \A p \in Projects : ~Dropping(p)
    BY <1>7 DEF Dropping
  <2> QED BY <1>1, <2>1 DEF ManagerInv, Control, Mapped, objVars, cfgVars
<1>14. Served'
  BY <1>1, <1>7 DEF ManagerInv, Control, Served, cfgVars
<1>15. Steady
  BY <1>1 DEF Steady, Running, objVars
<1>16. Commands'
  <2>1. ASSUME NEW h \in Cmds PROVE OpOf(cmd[h])' /\ Target(cmd[h])' /\ Caught(cmd[h])' /\ Reloading(cmd[h])'
    <3>1. PICK s \in Command : s = cmd'[h] /\ s = IF h = g THEN r ELSE cmd[h]
      BY <1>4
    <3>2. OpOf(s) /\ Target(s)' /\ Caught(s)' /\ Reloading(s)'
      <4>1. CASE h = g
        BY <3>1, <4>1 DEF Target, Caught, Reloading, StartLabels, Starters, Hands
      <4>2. CASE h # g
        <5>1. OpOf(s) /\ Target(s) /\ Caught(s) /\ Reloading(s)
          BY <3>1, <4>2, CommandIs
        <5>2. UNCHANGED <<cfg, children>>
          BY <1>1 DEF cfgVars, objVars
        <5> QED BY <1>2, <1>15, <5>1, <5>2, CommandStays
      <4> QED BY <4>1, <4>2
    <3> QED BY <3>1, <3>2 DEF OpOf, Target, Caught, Reloading, Hands
  <2> QED BY <2>1 DEF Commands
<1>17. Claims'
  BY <1>1, <1>3, ClaimsStay DEF objVars
<1> QED BY <1>9, <1>10, <1>11, <1>12, <1>13, <1>14, <1>16, <1>17 DEF ManagerInv, Control

\* Every command begins like that.
LEMMA BeginCommandKeeps ==
  ASSUME ManagerInv, Uncrowded, NEW g \in Cmds, BeginCommand(g)
  PROVE  ManagerInv'
<1>1. /\ Idle \in Command /\ Idle.op = "none" /\ Idle.pc = "ready" /\ Idle.list = <<>> /\ Idle.obj = 0
      /\ Idle.inc = 0 /\ Idle.todo = {} /\ Idle.found = {} /\ Idle.held = {} /\ Idle.waits = {}
      /\ Idle.gone = {} /\ Idle.drop = {}
  BY IdleIs DEF ManagerInv, Typing, TypeOK
<1>2. Typing /\ cfg \in Configs
  BY DEF ManagerInv, Typing, TypeOK
<1>3. ASSUME NEW o \in AllOps, NEW q \in Command, Begin(g, o, q), q.list # <<>> \/ o \notin Starters,
             q.held = {}, q.waits = {}, q.found = {}, q.gone = {}, q.todo = {} \/ o = "Stop",
             NEW l \in {"get", "stop", "ids", "swap"}, q.pc = l,
             l = IF o \in Starters THEN "get" ELSE IF o = "Stop" THEN "stop" ELSE IF o = "Reload" THEN "swap" ELSE "ids",
             o = "Close" => closed' = TRUE, o # "Close" => closed' = closed
      PROVE  ManagerInv'
  <2> DEFINE r == [q EXCEPT !.op = o]
  <2>1. /\ r \in Command /\ r.op = o /\ r.list = q.list /\ r.held = {} /\ r.waits = {} /\ r.found = {}
        /\ r.gone = {} /\ r.todo = q.todo /\ r.pc = l
    BY <1>3 DEF Command
  <2>2. cmd' = [cmd EXCEPT ![g] = r]
    BY <1>3 DEF Begin
  <2> HIDE DEF r
  <2>3. o \in Starters => l = "get"
    BY <1>3
  <2>4. o \notin Starters => /\ o = "Stop" => l = "stop"
                             /\ o = "Reload" => l = "swap"
                             /\ o \notin {"Stop", "Reload"} => l = "ids"
    BY <1>3
  <2>5. OpOf(r)
    <3>1. CASE o \in Starters
      BY <1>3, <2>1, <2>3, <3>1 DEF OpOf, StartLabels, Starters
    <3>2. CASE o \notin Starters
      BY <1>3, <2>1, <2>4, <3>2 DEF OpOf, StartLabels, Starters, AllOps
    <3> QED BY <3>1, <3>2
  <2>6. (o = "Reload" => r.pc = "swap") /\ (o = "Restart" => r.pc = "get") /\ r.pc \in {"get", "stop", "ids", "swap"}
    BY <2>1, <2>3, <2>4 DEF Starters
  <2>7. r.todo = {} \/ o # "Reload"
    BY <1>3, <2>1
  <2> QED BY <1>3, <2>1, <2>2, <2>5, <2>6, <2>7, BeginKeeps
<1>4. ASSUME NEW p \in Projects, NEW o \in {"Start", "Restart"}, Begin(g, o, [Idle EXCEPT !.pc = "get", !.list = <<p>>]),
             closed' = closed
      PROVE  ManagerInv'
  <2> DEFINE l == <<p>>
             q == [Idle EXCEPT !.pc = "get", !.list = l]
  <2>0. l \in Seq(Projects) /\ l # <<>>
    OBVIOUS
  <2> HIDE DEF l
  <2>1. /\ q \in Command /\ q.pc = "get" /\ q.list = l /\ q.held = {} /\ q.waits = {} /\ q.found = {}
        /\ q.gone = {} /\ q.todo = {}
    BY <1>1, <2>0 DEF Command, Labels, StartLabels
  <2>2. Begin(g, o, q) /\ o \in Starters /\ o \in AllOps /\ o # "Close"
    BY <1>4 DEF Starters, AllOps, l
  <2>3. q.list # <<>>
    BY <2>0, <2>1
  <2> HIDE DEF q
  <2> QED BY <1>3, <1>4, <2>1, <2>2, <2>3
<1>5. ASSUME NEW p \in Projects, BeginStop(g, p) PROVE ManagerInv'
  <2> DEFINE q == [Idle EXCEPT !.pc = "stop", !.todo = {p}]
  <2>1. /\ q \in Command /\ q.pc = "stop" /\ q.held = {} /\ q.waits = {} /\ q.found = {} /\ q.gone = {}
    BY <1>1 DEF Command, Labels
  <2>2. Begin(g, "Stop", q) /\ closed' = closed
    BY <1>5 DEF BeginStop
  <2> HIDE DEF q
  <2>3. "Stop" \in AllOps /\ "Stop" \notin Starters
    BY DEF AllOps, Starters
  <2> QED BY <1>3, <2>1, <2>2, <2>3
<1>6. ASSUME BeginStartGroup(g) PROVE ManagerInv'
  <2> DEFINE q == [Idle EXCEPT !.pc = "get", !.list = cfg.group]
  <2>1. cfg.group \in Seq(Projects) /\ cfg.group # <<>>
    BY <1>2, <1>6, ManagerAssumption DEF BeginStartGroup
  <2>2. /\ q \in Command /\ q.pc = "get" /\ q.list # <<>> /\ q.held = {} /\ q.waits = {} /\ q.found = {}
        /\ q.gone = {} /\ q.todo = {}
    BY <1>1, <2>1 DEF Command, Labels, StartLabels
  <2>3. Begin(g, "StartGroup", q) /\ closed' = closed
    BY <1>6 DEF BeginStartGroup
  <2> HIDE DEF q
  <2>4. "StartGroup" \in AllOps /\ "StartGroup" \in Starters
    BY DEF AllOps, Starters
  <2> QED BY <1>3, <2>2, <2>3, <2>4
<1>7. ASSUME NEW o \in {"StopAll", "Close"}, Begin(g, o, [Idle EXCEPT !.pc = "ids"]),
             o = "Close" => closed' = TRUE, o # "Close" => closed' = closed
      PROVE  ManagerInv'
  <2> DEFINE q == [Idle EXCEPT !.pc = "ids"]
  <2>1. /\ q \in Command /\ q.pc = "ids" /\ q.held = {} /\ q.waits = {} /\ q.found = {} /\ q.gone = {} /\ q.todo = {}
    BY <1>1 DEF Command, Labels
  <2>2. Begin(g, o, q) /\ o \in AllOps /\ o \notin Starters /\ o \notin {"Stop", "Reload"}
    BY <1>7 DEF Starters, AllOps
  <2> HIDE DEF q
  <2> QED BY <1>3, <1>7, <2>1, <2>2
<1>8. ASSUME BeginReload(g) PROVE ManagerInv'
  <2>1. PICK c \in Configs : Begin(g, "Reload", [Idle EXCEPT !.pc = "swap", !.new = c])
    BY <1>8 DEF BeginReload
  <2> DEFINE q == [Idle EXCEPT !.pc = "swap", !.new = c]
  <2>2. /\ q \in Command /\ q.pc = "swap" /\ q.held = {} /\ q.waits = {} /\ q.found = {} /\ q.gone = {} /\ q.todo = {}
    BY <1>1 DEF Command, Labels
  <2>3. Begin(g, "Reload", q) /\ closed' = closed
    BY <1>8, <2>1 DEF BeginReload
  <2> HIDE DEF q
  <2>4. "Reload" \in AllOps /\ "Reload" \notin Starters
    BY DEF AllOps, Starters
  <2> QED BY <1>3, <2>2, <2>3, <2>4
<1>9. CASE \E p \in Projects : BeginStart(g, p) \/ BeginStop(g, p)
  BY <1>4, <1>5, <1>9 DEF BeginStart
<1>10. CASE BeginStopAll(g)
  BY <1>7, <1>10 DEF BeginStopAll
<1>11. CASE BeginClose(g)
  BY <1>7, <1>11 DEF BeginClose
<1> QED BY <1>6, <1>8, <1>9, <1>10, <1>11 DEF BeginCommand

-----------------------------------------------------------------------------
(* A process and its run goroutine *)

\* A step beside the commands that keeps the claims.
LEMMA BesideKeeps ==
  ASSUME ManagerInv, UNCHANGED <<cmd, cfgVars, children, closed, open, begun>>,
         child' \in [Objects -> Children], \A o \in Objects : child'[o].id = child[o].id,
         proc' \in [Inc -> Processes],
         \A i \in Inc : /\ proc'[i].obj = proc[i].obj
                        /\ proc'[i].os = "none" <=> proc[i].os = "none"
                        /\ proc'[i].os = "alive" => proc[i].os = "alive"
                        /\ Running(i)' => Running(i),
         events' \in Seq(PidEvents), Len(events') <= EventCap, panicked' = FALSE,
         rt' \in [Projects -> Inc \cup {0, Absent}], Claims'
  PROVE  ManagerInv'
<1>1. Typing'
  <2>1. /\ cfg' \in Configs /\ srvCfg' \in Configs
        /\ children' \in [Projects -> Objects \cup {0}] /\ cmd' \in [Cmds -> Command]
        /\ begun' \in 0 .. MaxCommands /\ closed' \in BOOLEAN /\ open' \in BOOLEAN
    BY DEF ManagerInv, Typing, TypeOK, cfgVars
  <2> QED BY <2>1, TypingFrom
<1>2. Steady
  BY DEF Steady
<1> QED BY <1>1, <1>2, StayKeeps DEF ManagerInv

\* What an incarnation with a run goroutine is, and its child.
LEMMA RunIs ==
  ASSUME ManagerInv, NEW i \in Inc, proc[i].os # "none"
  PROVE  /\ Typing /\ proc[i].obj \in Objects /\ child[proc[i].obj].id \in Projects
         /\ Running(i) => open
<1>1. proc[i].obj \in Objects /\ child[proc[i].obj].id # "none" /\ Typing
  BY DEF ManagerInv, Claims, Courses
<1>2. child[proc[i].obj] \in Children
  BY <1>1 DEF Typing
<1> QED BY <1>1, <1>2 DEF Children, ManagerInv, Control, Closing

\* The process ends.
LEMMA ProcEndsKeeps ==
  ASSUME ManagerInv, NEW i \in Inc, ProcEnds(i)
  PROVE  ManagerInv'
<1>1. /\ ~panicked /\ proc[i].os \in {"alive", "killed"} /\ proc' = [proc EXCEPT ![i].os = "dead"]
      /\ UNCHANGED <<cfgVars, children, child, closed, chanVars, open, rt, cmd, begun>>
  BY DEF ProcEnds
<1>2. Typing
  BY DEF ManagerInv
<1>3. proc \in [Inc -> Processes] /\ "dead" \in OsStates
  BY <1>2 DEF Typing, OsStates
<1>4. /\ proc' \in [Inc -> Processes]
      /\ \A j \in Inc :
           /\ proc'[j].obj = proc[j].obj /\ proc'[j].run = proc[j].run
           /\ proc'[j].serves = proc[j].serves /\ proc'[j].done = proc[j].done
           /\ proc'[j].os = IF j = i THEN "dead" ELSE proc[j].os
  BY <1>1, <1>3, OsSet
<1>5. Claimed'
  BY <1>1, <1>4 DEF ManagerInv, Claims, Claimed, Serving, Starting
<1>6. Published'
  BY <1>1, <1>4 DEF ManagerInv, Claims, Published
<1>7. Courses'
  BY <1>1, <1>4 DEF ManagerInv, Claims, Courses
<1>8. Owned'
  <2>1. \A o \in Objects : child[o].cmd \in Inc \cup {0}
    <3>1. \A o \in Objects : child[o] \in Children
      BY <1>2 DEF Typing
    <3> QED BY <3>1 DEF Children
  <2> QED BY <1>1, <1>4, <2>1 DEF ManagerInv, Claims, Owned
<1>9. /\ child' \in [Objects -> Children] /\ events' \in Seq(PidEvents) /\ Len(events') <= EventCap
      /\ panicked' = FALSE /\ rt' \in [Projects -> Inc \cup {0, Absent}]
  BY <1>1, <1>2 DEF Typing, TypeOK, chanVars
<1>10. \A j \in Inc : /\ proc'[j].os = "none" <=> proc[j].os = "none"
                      /\ proc'[j].os = "alive" => proc[j].os = "alive"
                      /\ Running(j)' => Running(j)
  BY <1>1, <1>4 DEF Running
<1> QED BY <1>1, <1>4, <1>5, <1>6, <1>7, <1>8, <1>9, <1>10, BesideKeeps DEF Claims

\* The claims, when a run goroutine goes on: its process may be reaped, its child freed.
LEMMA RunClaims ==
  ASSUME ManagerInv, NEW i \in Inc, Running(i), proc[i].os # "none", UNCHANGED cmd,
         \A j \in Inc : proc'[j].obj = proc[j].obj /\ (j # i => proc'[j] = proc[j]),
         proc'[i].run # "none", Serving(i)' => Serving(i), proc'[i].os \in {proc[i].os, "reaped"},
         proc'[i].run \in {"enter", "read"} => ~proc'[i].done,
         proc'[i].run \notin {"enter", "read"} => proc'[i].os = "reaped",
         proc'[i].run = "read" => proc'[i].serves = i,
         \A o \in Objects : /\ child'[o].id = child[o].id
                            /\ o # proc[i].obj => child'[o] = child[o],
         Serving(i) \/ child' = child,
         LET c == child'[proc[i].obj] IN
           /\ proc'[i].run \in {"exited", "clear"} => proc[i].run \in {"read", "exited"}
           /\ proc'[i].run \in {"enter", "read"} => proc[i].run \in {"enter", "read"} /\ c.waitDone = i
           /\ proc'[i].run \in {"enter", "read", "exited", "clear"} => c.cmd = i
           /\ c.cmd \in {0, child[proc[i].obj].cmd}
           /\ Serving(i)' => c.state # "idle"
  PROVE  Claims'
<1> DEFINE o == proc[i].obj
<1>1. Typing /\ o \in Objects
  BY RunIs
<1>2. /\ \A j \in Inc \ {i} : Serving(j) /\ Serving(i) => proc[j].obj # o
      /\ \A h \in Cmds : Starting(h) /\ Serving(i) => cmd[h].obj # o
  BY DEF ManagerInv, Claims, Claimed
<1>3. \A h \in Cmds : Starting(h) => cmd[h].obj \in Objects
  BY StartIs DEF Starting, StartLabels
<1>4. \A j \in Inc : Serving(j) => proc[j].obj \in Objects
  BY DEF ManagerInv, Claims, Courses, Serving
<1>5. \A j \in Inc : Serving(j)' => Serving(j)
  BY DEF Serving
<1>6. \A h \in Cmds : Starting(h)' <=> Starting(h)
  BY DEF Starting
<1>7. Claimed'
  <2>1. \A h \in Cmds : Starting(h) => child'[cmd[h].obj].state # "idle"
    BY <1>2, <1>3 DEF ManagerInv, Claims, Claimed
  <2>2. \A j \in Inc : Serving(j)' => child'[proc[j].obj].state # "idle"
    BY <1>2, <1>4, <1>5 DEF ManagerInv, Claims, Claimed
  <2> QED BY <1>5, <1>6, <2>1, <2>2 DEF ManagerInv, Claims, Claimed
<1>8. Published'
  <2> SUFFICES ASSUME NEW h \in Cmds, cmd[h].pc \in {"running", "launch"}
               PROVE  LET k == cmd[h].inc IN
                      /\ k \in Inc /\ proc'[k].obj = cmd[h].obj /\ proc'[k].os # "none" /\ proc'[k].run = "none"
                      /\ child'[cmd[h].obj].cmd = k /\ child'[cmd[h].obj].waitDone = k
    BY DEF Published
  <2>1. cmd[h].inc # i
    BY DEF Running, ManagerInv, Claims, Published
  <2>2. child'[cmd[h].obj] = child[cmd[h].obj]
    BY <1>2, <1>3 DEF Starting
  <2> QED BY <2>1, <2>2 DEF ManagerInv, Claims, Published
<1>9. Courses'
  <2> SUFFICES ASSUME NEW j \in Inc
               PROVE  /\ proc'[j].os = "none" => proc'[j].run = "none"
                      /\ proc'[j].os # "none" => proc'[j].obj \in Objects /\ child'[proc'[j].obj].id # "none"
                      /\ proc'[j].os # "none" /\ proc'[j].run = "none" =>
                           \E h \in Cmds : cmd[h].pc \in {"running", "launch"} /\ cmd[h].inc = j
                      /\ proc'[j].run \in {"none", "enter", "read"} => ~proc'[j].done
                      /\ proc'[j].run \notin {"none", "enter", "read"} => proc'[j].os = "reaped"
                      /\ proc'[j].run \in {"enter", "read", "exited", "clear"} => child'[proc'[j].obj].cmd = j
                      /\ proc'[j].run \in {"enter", "read"} => child'[proc'[j].obj].waitDone = j
                      /\ proc'[j].run = "read" => proc'[j].serves = j
    BY DEF Courses
  <2>1. CASE j = i
    <3>1. child[o].id # "none"
      BY DEF ManagerInv, Claims, Courses
    <3> QED BY <1>1, <2>1, <3>1
  <2>2. CASE j # i
    <3>1. proc'[j] = proc[j]
      BY <2>2
    <3>2. Serving(j) => child'[proc[j].obj] = child[proc[j].obj]
      BY <1>2, <1>4, <2>2
    <3>3. proc[j].run \in {"enter", "read", "exited", "clear"} => Serving(j)
      BY DEF Serving
    <3>4. proc[j].os # "none" => child'[proc[j].obj].id # "none"
      BY DEF ManagerInv, Claims, Courses
    <3> QED BY <3>1, <3>2, <3>3, <3>4 DEF ManagerInv, Claims, Courses
  <2> QED BY <2>1, <2>2
<1>10. Owned'
  <2> SUFFICES ASSUME NEW q \in Objects, child'[q].cmd # 0
               PROVE  proc'[child'[q].cmd].os # "none" /\ proc'[child'[q].cmd].obj = q
    BY DEF Owned
  <2>1. child'[q].cmd = child[q].cmd
    BY <1>1
  <2>2. child[q] \in Children
    BY <1>1 DEF Typing
  <2>3. child[q].cmd \in Inc
    BY <2>1, <2>2 DEF Children
  <2>4. proc[child[q].cmd].os # "none" /\ proc[child[q].cmd].obj = q
    BY <2>1 DEF ManagerInv, Claims, Owned
  <2> QED BY <2>1, <2>3, <2>4
<1> QED BY <1>7, <1>8, <1>9, <1>10 DEF Claims

\* The same, with the rest of the invariant.
LEMMA RunKeeps ==
  ASSUME ManagerInv, NEW i \in Inc, Running(i), proc[i].os # "none",
         UNCHANGED <<cfgVars, children, closed, open, rt, cmd, begun>>,
         proc' \in [Inc -> Processes], child' \in [Objects -> Children],
         events' \in Seq(PidEvents), Len(events') <= EventCap, panicked' = FALSE,
         \A j \in Inc : proc'[j].obj = proc[j].obj /\ (j # i => proc'[j] = proc[j]),
         proc'[i].os \in {proc[i].os, "reaped"}, \A o \in Objects : child'[o].id = child[o].id, Claims'
  PROVE  ManagerInv'
<1>1. \A j \in Inc : /\ proc'[j].os = "none" <=> proc[j].os = "none"
                     /\ proc'[j].os = "alive" => proc[j].os = "alive"
                     /\ Running(j)' => Running(j)
  BY DEF Running
<1>2. rt' \in [Projects -> Inc \cup {0, Absent}]
  BY DEF ManagerInv, Typing, TypeOK
<1> QED BY <1>1, <1>2, BesideKeeps

\* The run goroutine takes the command it waits on.
LEMMA RunEnterKeeps ==
  ASSUME ManagerInv, NEW i \in Inc, RunEnter(i)
  PROVE  ManagerInv'
<1> DEFINE o == proc[i].obj
<1>1. /\ ~panicked /\ proc[i].run = "enter"
      /\ UNCHANGED <<cfgVars, children, child, closed, events, open, rt, cmd, begun>>
  BY DEF RunEnter, RunAt
<1>2. /\ proc[i].os # "none" /\ child[o].cmd = i /\ child[o].waitDone = i /\ ~proc[i].done
      /\ Running(i) /\ Serving(i) /\ child[o].state # "idle"
  BY <1>1 DEF ManagerInv, Claims, Courses, Claimed, Serving, Running
<1>3. Typing /\ o \in Objects
  BY <1>2, RunIs
<1>4. i # 0
  BY ManagerAssumption DEF Inc
<1>5. proc' = [proc EXCEPT ![i].run = "read", ![i].serves = i] /\ UNCHANGED panicked
  BY <1>2, <1>4 DEF RunEnter
<1>6. /\ proc' \in [Inc -> Processes]
      /\ \A j \in Inc : proc'[j].obj = proc[j].obj /\ (j # i => proc'[j] = proc[j])
      /\ proc'[i].os = proc[i].os /\ proc'[i].done = proc[i].done
      /\ proc'[i].run = "read" /\ proc'[i].serves = i
  <2>1. proc[i] \in Processes /\ proc \in [Inc -> Processes]
    BY <1>3 DEF Typing
  <2> DEFINE r == [proc[i] EXCEPT !.run = "read", !.serves = i]
  <2>2. /\ r \in Processes /\ r.obj = proc[i].obj /\ r.os = proc[i].os /\ r.done = proc[i].done
        /\ r.run = "read" /\ r.serves = i
    BY <2>1 DEF Processes, RunStates
  <2>3. proc' = [proc EXCEPT ![i] = r]
    BY <1>5, <2>1
  <2> HIDE DEF r
  <2> QED BY <2>1, <2>2, <2>3
<1>7. Claims'
  BY <1>1, <1>2, <1>6, RunClaims DEF Serving
<1>8. /\ child' \in [Objects -> Children] /\ events' \in Seq(PidEvents) /\ Len(events') <= EventCap
      /\ panicked' = FALSE
  BY <1>1, <1>3, <1>5 DEF Typing, TypeOK
<1> QED BY <1>1, <1>2, <1>6, <1>7, <1>8, RunKeeps

\* It reaps its own process and closes that process's waitDone.
LEMMA RunReapKeeps ==
  ASSUME ManagerInv, NEW i \in Inc, RunReap(i)
  PROVE  ManagerInv'
<1> DEFINE o == proc[i].obj
<1>1. /\ ~panicked /\ proc[i].run = "read"
      /\ UNCHANGED <<cfgVars, children, child, closed, events, open, rt, cmd, begun>>
  BY DEF RunReap, RunAt
<1>2. /\ proc[i].os # "none" /\ child[o].cmd = i /\ child[o].waitDone = i /\ ~proc[i].done
      /\ Running(i) /\ Serving(i) /\ child[o].state # "idle" /\ proc[i].serves = i
  BY <1>1 DEF ManagerInv, Claims, Courses, Claimed, Serving, Running
<1>3. Typing /\ o \in Objects /\ proc[i] \in Processes /\ proc \in [Inc -> Processes]
  BY <1>2, RunIs DEF Typing
<1>4. /\ proc' = [[proc EXCEPT ![i].os = "reaped"] EXCEPT ![i].done = TRUE, ![i].run = "exited"]
      /\ UNCHANGED panicked
  BY <1>2 DEF RunReap
<1>5. /\ proc' \in [Inc -> Processes]
      /\ \A j \in Inc : proc'[j].obj = proc[j].obj /\ (j # i => proc'[j] = proc[j])
      /\ proc'[i].os = "reaped" /\ proc'[i].run = "exited" /\ proc'[i].serves = i
  <2> DEFINE r == [proc[i] EXCEPT !.os = "reaped", !.done = TRUE, !.run = "exited"]
  <2>1. /\ r \in Processes /\ r.obj = proc[i].obj /\ r.os = "reaped" /\ r.run = "exited" /\ r.serves = i
    BY <1>2, <1>3 DEF Processes, RunStates, OsStates
  <2>2. proc' = [proc EXCEPT ![i] = r]
    BY <1>3, <1>4
  <2> HIDE DEF r
  <2> QED BY <1>3, <2>1, <2>2
<1>6. Claims'
  BY <1>1, <1>2, <1>5, RunClaims DEF Serving
<1>7. /\ child' \in [Objects -> Children] /\ events' \in Seq(PidEvents) /\ Len(events') <= EventCap
      /\ panicked' = FALSE
  BY <1>1, <1>3, <1>4 DEF Typing, TypeOK
<1> QED BY <1>1, <1>2, <1>5, <1>6, <1>7, RunKeeps

\* It says that the process has exited.
LEMMA RunExitedKeeps ==
  ASSUME ManagerInv, NEW i \in Inc, RunExited(i)
  PROVE  /\ ManagerInv'
         /\ KeepsUp => events' = Append(events, [id |-> child[proc[i].obj].id, pid |-> 0])
<1> DEFINE o == proc[i].obj
<1>1. /\ ~panicked /\ proc[i].run = "exited" /\ proc' = [proc EXCEPT ![i].run = "clear"]
      /\ UNCHANGED <<cfgVars, children, child, closed, open, rt, cmd, begun>> /\ Emit(child[o].id, 0)
  BY DEF RunExited, RunAt
<1>2. /\ proc[i].os = "reaped" /\ child[o].cmd = i
      /\ Running(i) /\ Serving(i) /\ child[o].state # "idle"
  BY <1>1 DEF ManagerInv, Claims, Courses, Claimed, Serving, Running
<1>3. Typing /\ o \in Objects /\ child[o].id \in Projects /\ open /\ proc \in [Inc -> Processes]
  BY <1>2, RunIs DEF Typing
<1>4. /\ proc' \in [Inc -> Processes]
      /\ \A j \in Inc : proc'[j].obj = proc[j].obj /\ (j # i => proc'[j] = proc[j])
      /\ proc'[i].os = "reaped" /\ proc'[i].run = "clear"
  <2> DEFINE r == [proc[i] EXCEPT !.run = "clear"]
  <2>1. r \in Processes /\ r.obj = proc[i].obj /\ r.os = "reaped" /\ r.run = "clear"
    BY <1>2, <1>3 DEF Processes, RunStates
  <2>2. proc' = [proc EXCEPT ![i] = r]
    BY <1>1, <1>3
  <2> HIDE DEF r
  <2> QED BY <1>3, <2>1, <2>2
<1>5. Claims'
  BY <1>1, <1>2, <1>4, RunClaims DEF Serving
<1>6. /\ events \in Seq(PidEvents) /\ Len(events) <= EventCap /\ 0 \in Inc \cup {0}
      /\ child' \in [Objects -> Children]
  BY <1>1, <1>3 DEF Typing, TypeOK
<1>7. /\ events' \in Seq(PidEvents) /\ Len(events') <= EventCap /\ panicked' = FALSE
      /\ KeepsUp => events' = Append(events, [id |-> child[o].id, pid |-> 0])
  BY <1>1, <1>3, <1>6, EmitKeeps
<1> QED BY <1>1, <1>2, <1>4, <1>5, <1>6, <1>7, RunKeeps

\* It takes the command away from the child.
LEMMA RunClearKeeps ==
  ASSUME ManagerInv, NEW i \in Inc, RunClear(i)
  PROVE  ManagerInv'
<1> DEFINE o == proc[i].obj
<1>1. /\ ~panicked /\ proc[i].run = "clear" /\ proc' = [proc EXCEPT ![i].run = "set"]
      /\ child' = [child EXCEPT ![o].cmd = 0]
      /\ UNCHANGED <<cfgVars, children, closed, chanVars, open, rt, cmd, begun>>
  BY DEF RunClear, RunAt
<1>2. /\ proc[i].os = "reaped"
      /\ Running(i) /\ Serving(i) /\ child[o].state # "idle"
  BY <1>1 DEF ManagerInv, Claims, Courses, Claimed, Serving, Running
<1>3. Typing /\ o \in Objects /\ proc \in [Inc -> Processes] /\ child[o] \in Children /\ child \in [Objects -> Children]
  BY <1>2, RunIs DEF Typing
<1>4. /\ proc' \in [Inc -> Processes]
      /\ \A j \in Inc : proc'[j].obj = proc[j].obj /\ (j # i => proc'[j] = proc[j])
      /\ proc'[i].os = "reaped" /\ proc'[i].run = "set"
  <2> DEFINE r == [proc[i] EXCEPT !.run = "set"]
  <2>1. r \in Processes /\ r.obj = proc[i].obj /\ r.os = "reaped" /\ r.run = "set"
    BY <1>2, <1>3 DEF Processes, RunStates
  <2>2. proc' = [proc EXCEPT ![i] = r]
    BY <1>1, <1>3
  <2> HIDE DEF r
  <2> QED BY <1>3, <2>1, <2>2
<1>5. /\ child' \in [Objects -> Children]
      /\ \A q \in Objects : child'[q].id = child[q].id /\ (q # o => child'[q] = child[q])
      /\ child'[o].cmd = 0 /\ child'[o].state = child[o].state
  <2> DEFINE c == [child[o] EXCEPT !.cmd = 0]
  <2>1. c \in Children /\ c.id = child[o].id /\ c.cmd = 0 /\ c.state = child[o].state
    BY <1>3 DEF Children
  <2>2. child' = [child EXCEPT ![o] = c]
    BY <1>1, <1>3
  <2> HIDE DEF c
  <2> QED BY <1>3, <2>1, <2>2
<1>6. Claims'
  BY <1>1, <1>2, <1>4, <1>5, RunClaims DEF Serving
<1>7. events' \in Seq(PidEvents) /\ Len(events') <= EventCap /\ panicked' = FALSE
  BY <1>1, <1>3 DEF Typing, TypeOK, chanVars
<1> QED BY <1>1, <1>2, <1>4, <1>5, <1>6, <1>7, RunKeeps

\* It sets the state, which lets the next start in.
LEMMA RunSetKeeps ==
  ASSUME ManagerInv, NEW i \in Inc, RunSet(i)
  PROVE  ManagerInv'
<1> DEFINE o == proc[i].obj
<1>1. /\ ~panicked /\ proc[i].run = "set" /\ proc' = [proc EXCEPT ![i].run = "return"]
      /\ child' = [child EXCEPT ![o].state = "idle"]
      /\ UNCHANGED <<cfgVars, children, closed, chanVars, open, rt, cmd, begun>>
  BY DEF RunSet, RunAt
<1>2. /\ proc[i].os = "reaped" /\ Running(i) /\ Serving(i)
  BY <1>1 DEF ManagerInv, Claims, Courses, Serving, Running
<1>3. Typing /\ o \in Objects /\ proc \in [Inc -> Processes] /\ child[o] \in Children /\ child \in [Objects -> Children]
  BY <1>2, RunIs DEF Typing
<1>4. /\ proc' \in [Inc -> Processes]
      /\ \A j \in Inc : proc'[j].obj = proc[j].obj /\ (j # i => proc'[j] = proc[j])
      /\ proc'[i].os = "reaped" /\ proc'[i].run = "return"
  <2> DEFINE r == [proc[i] EXCEPT !.run = "return"]
  <2>1. r \in Processes /\ r.obj = proc[i].obj /\ r.os = "reaped" /\ r.run = "return"
    BY <1>2, <1>3 DEF Processes, RunStates
  <2>2. proc' = [proc EXCEPT ![i] = r]
    BY <1>1, <1>3
  <2> HIDE DEF r
  <2> QED BY <1>3, <2>1, <2>2
<1>5. /\ child' \in [Objects -> Children]
      /\ \A q \in Objects : child'[q].id = child[q].id /\ (q # o => child'[q] = child[q])
      /\ child'[o].cmd = child[o].cmd
  <2> DEFINE c == [child[o] EXCEPT !.state = "idle"]
  <2>1. c \in Children /\ c.id = child[o].id /\ c.cmd = child[o].cmd
    BY <1>3 DEF Children, States
  <2>2. child' = [child EXCEPT ![o] = c]
    BY <1>1, <1>3
  <2> HIDE DEF c
  <2> QED BY <1>3, <2>1, <2>2
<1>6. Claims'
  BY <1>1, <1>2, <1>4, <1>5, RunClaims DEF Serving
<1>7. events' \in Seq(PidEvents) /\ Len(events') <= EventCap /\ panicked' = FALSE
  BY <1>1, <1>3 DEF Typing, TypeOK, chanVars
<1> QED BY <1>1, <1>2, <1>4, <1>5, <1>6, <1>7, RunKeeps

\* It says so, and returns.
LEMMA RunReturnKeeps ==
  ASSUME ManagerInv, NEW i \in Inc, RunReturn(i)
  PROVE  ManagerInv'
<1> DEFINE o == proc[i].obj
<1>1. /\ ~panicked /\ proc[i].run = "return" /\ proc' = [proc EXCEPT ![i].run = "done"] /\ Announce
      /\ UNCHANGED <<cfgVars, children, child, closed, open, rt, cmd, begun>>
  BY DEF RunReturn, RunAt
<1>2. /\ proc[i].os = "reaped" /\ Running(i) /\ ~Serving(i)
  BY <1>1 DEF ManagerInv, Claims, Courses, Serving, Running
<1>3. Typing /\ o \in Objects /\ proc \in [Inc -> Processes] /\ open
  BY <1>2, RunIs DEF Typing
<1>4. /\ proc' \in [Inc -> Processes]
      /\ \A j \in Inc : proc'[j].obj = proc[j].obj /\ (j # i => proc'[j] = proc[j])
      /\ proc'[i].os = "reaped" /\ proc'[i].run = "done"
  <2> DEFINE r == [proc[i] EXCEPT !.run = "done"]
  <2>1. r \in Processes /\ r.obj = proc[i].obj /\ r.os = "reaped" /\ r.run = "done"
    BY <1>2, <1>3 DEF Processes, RunStates
  <2>2. proc' = [proc EXCEPT ![i] = r]
    BY <1>1, <1>3
  <2> HIDE DEF r
  <2> QED BY <1>3, <2>1, <2>2
<1>5. ~Serving(i)' /\ child' = child
  BY <1>1, <1>4 DEF Serving
<1>6. Claims'
  BY <1>1, <1>2, <1>4, <1>5, RunClaims DEF Serving
<1>7. /\ child' \in [Objects -> Children] /\ events' \in Seq(PidEvents) /\ Len(events') <= EventCap
      /\ panicked' = FALSE
  BY <1>1, <1>3 DEF Typing, TypeOK, Announce
<1> QED BY <1>1, <1>2, <1>4, <1>5, <1>6, <1>7, RunKeeps

-----------------------------------------------------------------------------
(* The invariant *)

\* The source goroutine applies an event.
LEMMA SourceAppliesKeeps ==
  ASSUME ManagerInv, SourceApplies
  PROVE  ManagerInv'
<1> DEFINE e == Head(events)
<1>1. /\ ~panicked /\ events # <<>> /\ events' = Tail(events) /\ rt' = [rt EXCEPT ![e.id] = e.pid]
      /\ UNCHANGED <<cfgVars, objVars, closed, panicked, open, cmd, begun>>
  BY DEF SourceApplies
<1>2. Typing
  BY DEF ManagerInv
<1>3. /\ events \in Seq(PidEvents) /\ Len(events) <= EventCap
      /\ rt \in [Projects -> Inc \cup {0, Absent}]
  BY <1>2 DEF Typing, TypeOK
<1>4. e \in PidEvents /\ events' \in Seq(PidEvents) /\ Len(events') = Len(events) - 1 /\ Len(events) \in Nat
  BY <1>1, <1>3, HeadTailProperties
<1>5. e.id \in Projects /\ e.pid \in Inc \cup {0}
  BY <1>4 DEF PidEvents
<1> HIDE DEF e
<1>6. rt' \in [Projects -> Inc \cup {0, Absent}]
  BY <1>1, <1>3, <1>5
<1>7. Len(events') <= EventCap
  BY <1>3, <1>4, ManagerAssumption
<1>8. /\ child' \in [Objects -> Children] /\ proc' \in [Inc -> Processes] /\ panicked' = FALSE
  BY <1>1, <1>2 DEF Typing, TypeOK, objVars
<1>9. Claims'
  BY <1>1 DEF ManagerInv, Claims, Claimed, Published, Courses, Owned, Starting, Serving, objVars
<1>10. /\ UNCHANGED <<cmd, cfgVars, children, closed, open, begun>>
       /\ \A o \in Objects : child'[o].id = child[o].id
       /\ \A i \in Inc : /\ proc'[i].obj = proc[i].obj
                         /\ proc'[i].os = "none" <=> proc[i].os = "none"
                         /\ proc'[i].os = "alive" => proc[i].os = "alive"
                         /\ Running(i)' => Running(i)
  BY <1>1 DEF objVars, Running
<1> QED BY <1>4, <1>6, <1>7, <1>8, <1>9, <1>10, BesideKeeps

\* The invariant holds when the daemon comes up.
LEMMA ManagerInit == ASSUME Init PROVE ManagerInv
<1>1. /\ cfg \in Configs /\ srvCfg = cfg /\ children = [p \in Projects |-> 0]
      /\ child = [o \in Objects |-> NoChild] /\ proc = [i \in Inc |-> NoProc]
      /\ closed = FALSE /\ events = <<>> /\ open = TRUE /\ panicked = FALSE
      /\ rt = [p \in Projects |-> IF p \in DOMAIN cfg.projects THEN 0 ELSE Absent]
      /\ cmd = [g \in Cmds |-> Idle] /\ begun = 0
  BY DEF Init
<1>2. /\ Idle \in Command /\ Idle.op = "none" /\ Idle.pc = "ready" /\ Idle.held = {} /\ Idle.waits = {}
      /\ Idle.gone = {}
  BY <1>1, IdleIs
<1> HIDE DEF Idle
<1>3. NoChild \in Children /\ NoChild.id = "none" /\ NoChild.cmd = 0
  BY DEF NoChild, Children, Definitions, States
<1>4. NoProc \in Processes /\ NoProc.os = "none" /\ NoProc.run = "none" /\ NoProc.done = FALSE
  BY DEF NoProc, Processes, OsStates, RunStates
<1> HIDE DEF NoChild, NoProc
<1>5. /\ cmd \in [Cmds -> Command] /\ \A g \in Cmds : cmd[g] = Idle
      /\ child \in [Objects -> Children] /\ \A o \in Objects : child[o] = NoChild
      /\ proc \in [Inc -> Processes] /\ \A i \in Inc : proc[i] = NoProc
  BY <1>1, <1>2, <1>3, <1>4
<1>6. Typing
  <2>1. /\ \A o \in Objects :
             /\ child[o].id \in Projects \cup {"none"} /\ child[o].state \in States
             /\ child[o].cmd \in Inc \cup {0} /\ child[o].waitDone \in Inc \cup {0}
        /\ \A i \in Inc :
             /\ proc[i].obj \in Objects \cup {0} /\ proc[i].serves \in Inc \cup {0}
             /\ proc[i].os \in OsStates /\ proc[i].run \in RunStates
    BY <1>3, <1>4, <1>5 DEF Children, Processes
  <2>2. rt \in [Projects -> Inc \cup {0, Absent}] /\ children \in [Projects -> Objects \cup {0}]
    BY <1>1
  <2>3. events \in Seq(PidEvents) /\ Len(events) <= EventCap /\ begun \in 0 .. MaxCommands
    BY <1>1, ManagerAssumption
  <2>4. ~panicked /\ closed \in BOOLEAN /\ open \in BOOLEAN /\ cfg \in Configs /\ srvCfg \in Configs
    BY <1>1
  <2> QED BY <1>5, <2>1, <2>2, <2>3, <2>4 DEF Typing, TypeOK, States, OsStates, RunStates
<1>7. Solo /\ Closing
  BY <1>1, <1>2, <1>5 DEF Solo, Closing, Starters
<1>8. Numbered
  <2>1. Created = 1 .. 0 /\ 0 \in 0 .. MaxChildren
    BY <1>3, <1>5, ManagerAssumption DEF Created
  <2> QED BY <2>1 DEF Numbered
<1>9. Mapped /\ Reachable /\ Served
  BY <1>1, <1>4, <1>5 DEF Mapped, Reachable, Served, Alive
<1>10. Commands
  <2>1. Typing /\ OpOf(Idle) /\ Target(Idle) /\ Reloading(Idle)
    BY <1>2, <1>6, IdleIs, <1>1 DEF OpOf, Target, Reloading, StartLabels, Starters
  <2>2. Caught(Idle)
    BY <1>2 DEF Caught
  <2> QED BY <1>5, <2>1, <2>2 DEF Commands
<1>11. Claims
  BY <1>2, <1>3, <1>4, <1>5 DEF Claims, Claimed, Published, Courses, Owned, Starting, Serving
<1> QED BY <1>6, <1>7, <1>8, <1>9, <1>10, <1>11 DEF ManagerInv, Control

\* A command's step keeps it.
LEMMA StepKeeps ==
  ASSUME ManagerInv, Uncrowded, NEW g \in Cmds, Step(g)
  PROVE  ManagerInv'
<1>1. CASE GetOrCreate(g)
  BY <1>1, GetExistingKeeps, CreateKeeps
<1>2. CASE StartEnter(g) \/ StartSpawn(g) \/ StartFails(g) \/ StartAbort(g) \/ StartRunning(g) \/ StartLaunch(g)
  BY <1>2, StartEnterKeeps, StartSpawnKeeps, StartFailsKeeps, AbortKeeps, StartRunningKeeps, StartLaunchKeeps
<1>3. CASE RestartAgain(g) \/ StopIds(g) \/ Stopped(g) \/ CloseWaits(g) \/ CloseEvents(g)
  BY <1>3, RestartAgainKeeps, StopIdsKeeps, StoppedKeeps, CloseWaitsKeeps, CloseEventsKeeps
<1>4. CASE Swap(g) \/ SwapServer(g) \/ SeedAndDelete(g)
  BY <1>4, SwapKeeps, SwapServerKeeps, SeedAndDeleteKeeps
<1>5. ASSUME NEW p \in Projects, StopLookup(g, p) PROVE ManagerInv'
  BY <1>5, StopLookupKeeps
<1>6. ASSUME NEW o \in Objects, StopRead(g, o) \/ DropEntry(g, o) PROVE ManagerInv'
  BY <1>6, StopReadKeeps, DropEntryKeeps
<1>7. ASSUME NEW i \in Inc, StopSet(g, i) \/ StopReturns(g, i) PROVE ManagerInv'
  BY <1>7, StopSetKeeps, StopReturnsKeeps
<1> QED BY <1>1, <1>2, <1>3, <1>4, <1>5, <1>6, <1>7 DEF Step

\* Every step keeps it.
LEMMA ManagerNext ==
  ASSUME ManagerInv, Uncrowded, [Next]_vars
  PROVE  ManagerInv'
<1>1. ASSUME NEW g \in Cmds, BeginCommand(g) \/ Step(g) PROVE ManagerInv'
  BY <1>1, BeginCommandKeeps, StepKeeps
<1>2. ASSUME NEW i \in Inc, ProcEnds(i) \/ RunStep(i) PROVE ManagerInv'
  BY <1>2, ProcEndsKeeps, RunEnterKeeps, RunReapKeeps, RunExitedKeeps, RunClearKeeps, RunSetKeeps, RunReturnKeeps DEF RunStep
<1>3. CASE UNCHANGED vars
  <2>1. Typing'
    BY <1>3 DEF ManagerInv, Typing, TypeOK, vars, cfgVars, objVars, chanVars
  <2>2. Claims'
    BY <1>3 DEF ManagerInv, Claims, Claimed, Published, Courses, Owned, Starting, Serving, vars, objVars
  <2>3. Steady /\ UNCHANGED <<cmd, cfgVars, children, closed, open>> /\ \A i \in Inc : Running(i)' => Running(i)
    BY <1>3 DEF Steady, Running, vars, objVars
  <2> QED BY <2>1, <2>2, <2>3, StayKeeps DEF ManagerInv
<1> QED BY <1>1, <1>2, <1>3, SourceAppliesKeeps DEF Next

-----------------------------------------------------------------------------
(* Theorems *)

\* In such an environment the manager keeps the invariant (manager.go:22-276, child.go:90-355): a child is
\* claimed by at most one start or run goroutine, and nothing that SIGKILL is not about to end runs outside the map.
THEOREM ManagerKept == ASSUME Uncrowded PROVE Spec => []ManagerInv
<1>1. Init => ManagerInv
  BY ManagerInit
<1>2. ManagerInv /\ [Next]_vars => ManagerInv'
  BY ManagerNext
<1> QED BY <1>1, <1>2, PTL DEF Spec

\* Nothing is sent on the event channel once Close has closed it (manager.go:138-140), no run goroutine waits
\* on a nil command, and no waitDone is closed twice (child.go:167, 217-221).
THEOREM NeverSendsOnClosed == ASSUME Uncrowded PROVE Spec => []TypeOK
<1>1. ManagerInv => TypeOK
  BY DEF ManagerInv, Typing
<1> QED BY <1>1, ManagerKept, PTL

\* Stop and StopAll find every process (manager.go:54-63, 94-112, 238-241; child.go:325-341).
THEOREM ProcessesStoppable == ASSUME Uncrowded PROVE Spec => []Stoppable
<1>1. ManagerInv => Stoppable
  BY AliveIsCmd DEF ManagerInv, Control, Reachable, Stoppable
<1> QED BY <1>1, ManagerKept, PTL

\* A reload leaves the server with the manager's configuration, and nothing runs that is not in it
\* (manager.go:195-243; server.go:308-312).
THEOREM ReloadsReconcile == ASSUME Uncrowded PROVE Spec => []Reconciled
<1>1. ManagerInv => Reconciled
  <2> SUFFICES ASSUME ManagerInv, Busy = {} PROVE srvCfg = cfg /\ \A i \in Inc : Alive(i) => Of(i) \in DOMAIN cfg.projects
    BY DEF Reconciled
  <2>1. \A g \in Cmds : cmd[g].op = "none"
    BY CommandIs DEF Busy, OpOf
  <2>2. srvCfg = cfg /\ \A p \in Projects : ~Dropping(p)
    BY <2>1 DEF ManagerInv, Control, Served, Dropping
  <2>3. ASSUME NEW i \in Inc, Alive(i) PROVE Of(i) \in DOMAIN cfg.projects
    <3>1. proc[i].obj \in Objects /\ Of(i) \in Projects /\ children[Of(i)] = proc[i].obj
      BY <2>3, RunIs DEF Alive, Of, ManagerInv, Control, Reachable
    <3>2. children[Of(i)] # 0
      BY <3>1, ManagerAssumption DEF Objects
    <3> QED BY <2>2, <3>1, <3>2 DEF ManagerInv, Control, Mapped
  <2> QED BY <2>2, <2>3
<1> QED BY <1>1, ManagerKept, PTL

-----------------------------------------------------------------------------
(* Close has found every process *)

\* Each process that Close has still to see end is ahead of it, and once it waits it has told them all.
Finding(r) ==
  r.op = "Close" =>
    /\ r.pc \in {"stop", "wait"} =>
         \A i \in Inc : Alive(i) => Of(i) \in r.todo \/ proc[i].obj \in r.found \/ i \in r.held \cup r.waits
    /\ r.pc = "wait" => r.todo = {} /\ r.found = {} /\ r.held = {}

\* Beside its own steps, processes only end.
LEMMA FindingStays ==
  ASSUME ManagerInv, NEW g \in Cmds, Finding(cmd[g]), cmd'[g] = cmd[g],
         \A o \in Objects : child[o].id # "none" => child'[o].id = child[o].id,
         \A i \in Inc : Alive(i)' => Alive(i) /\ proc'[i].obj = proc[i].obj
  PROVE  Finding(cmd[g])'
<1>1. \A i \in Inc : Alive(i)' => Alive(i) /\ Of(i)' = Of(i) /\ proc'[i].obj = proc[i].obj
  <2> SUFFICES ASSUME NEW i \in Inc, Alive(i)'
               PROVE  Alive(i) /\ Of(i)' = Of(i) /\ proc'[i].obj = proc[i].obj
    OBVIOUS
  <2>1. Alive(i) /\ proc'[i].obj = proc[i].obj
    OBVIOUS
  <2>2. proc[i].obj \in Objects /\ child[proc[i].obj].id # "none"
    BY <2>1 DEF Alive, ManagerInv, Claims, Courses
  <2> QED BY <2>1, <2>2 DEF Of
<1> QED BY <1>1 DEF Finding

\* Close's own steps.
LEMMA CloseFindsOn ==
  ASSUME ManagerInv, NEW g \in Cmds, cmd[g].op = "Close", Finding(cmd[g]), Step(g)
  PROVE  Finding(cmd[g])'
<1>1. /\ cmd \in [Cmds -> Command] /\ cmd[g] \in Command /\ OpOf(cmd[g])
      /\ cmd[g].pc \in {"ids", "stop", "wait", "close"}
  <2>1. cmd \in [Cmds -> Command] /\ cmd[g] \in Command /\ OpOf(cmd[g])
    BY CommandIs DEF Typing
  <2> QED BY <2>1 DEF OpOf, Command, Labels, StartLabels, Starters
<1>2. Idle.op # "Close"
  BY DEF Idle
<1> HIDE DEF Idle
<1>3. CASE StopIds(g)
  <2>1. cmd'[g] = [cmd[g] EXCEPT !.pc = "stop", !.todo = {p \in Projects : children[p] # 0}] /\ UNCHANGED <<child, proc>>
    BY <1>1, <1>3 DEF StopIds, objVars
  <2>2. cmd'[g].pc = "stop" /\ cmd'[g].todo = {p \in Projects : children[p] # 0}
    BY <1>1, <2>1 DEF Command
  <2>3. ASSUME NEW i \in Inc, Alive(i) PROVE Of(i) \in cmd'[g].todo
    <3>1. children[Of(i)] = proc[i].obj /\ proc[i].obj \in Objects
      BY <2>3, AliveIsCmd DEF ManagerInv, Control, Reachable
    <3>2. Of(i) \in Projects
      BY <2>3, RunIs DEF Alive, Of
    <3>3. 0 \notin Objects
      BY ManagerAssumption DEF Objects
    <3> QED BY <2>2, <3>1, <3>2, <3>3
  <2> QED BY <2>1, <2>2, <2>3 DEF Finding, Alive, Of
<1>4. ASSUME NEW p \in Projects, StopLookup(g, p) PROVE Finding(cmd[g])'
  <2>1. /\ cmd'[g] = [cmd[g] EXCEPT !.todo = @ \ {p}, !.found = @ \cup ({children[p]} \ {0})]
        /\ UNCHANGED <<child, proc>> /\ cmd[g].pc = "stop"
    BY <1>1, <1>4 DEF StopLookup, objVars, At
  <2>2. /\ cmd'[g].op = "Close" /\ cmd'[g].pc = "stop" /\ cmd'[g].todo = cmd[g].todo \ {p}
        /\ cmd'[g].found = cmd[g].found \cup ({children[p]} \ {0})
        /\ cmd'[g].held = cmd[g].held /\ cmd'[g].waits = cmd[g].waits
    BY <1>1, <2>1 DEF Command
  <2>3. \A i \in Inc : Alive(i) => children[Of(i)] = proc[i].obj /\ proc[i].obj # 0
    <3>1. 0 \notin Objects
      BY ManagerAssumption DEF Objects
    <3> QED BY <3>1, AliveIsCmd DEF ManagerInv, Control, Reachable
  <2> QED BY <2>1, <2>2, <2>3 DEF Finding, Alive, Of
<1>5. ASSUME NEW o \in Objects, StopRead(g, o) PROVE Finding(cmd[g])'
  <2>1. /\ cmd[g].pc = "stop" /\ UNCHANGED <<child, proc>> /\ Gone(g, o) = {}
        /\ cmd' = IF child[o].cmd = 0
                  THEN [cmd EXCEPT ![g].found = @ \ {o}, ![g].gone = @ \cup Gone(g, o)]
                  ELSE [cmd EXCEPT ![g].found = @ \ {o}, ![g].held = @ \cup {child[o].cmd}]
    BY <1>5 DEF StopRead, At, objVars, Gone
  <2>2. \A i \in Inc : Alive(i) => child[proc[i].obj].cmd = i /\ i # 0
    <3>1. 0 \notin Inc
      BY ManagerAssumption DEF Inc
    <3> QED BY <3>1, AliveIsCmd
  <2>3. /\ cmd'[g].op = "Close" /\ cmd'[g].pc = "stop" /\ cmd'[g].todo = cmd[g].todo
        /\ cmd'[g].found = cmd[g].found \ {o} /\ cmd'[g].waits = cmd[g].waits
        /\ cmd[g].held \subseteq cmd'[g].held /\ (child[o].cmd # 0 => child[o].cmd \in cmd'[g].held)
    <3>1. CASE child[o].cmd = 0
      BY <1>1, <2>1, <3>1 DEF Command
    <3>2. CASE child[o].cmd # 0
      BY <1>1, <2>1, <3>2 DEF Command
    <3> QED BY <3>1, <3>2
  <2>4. ASSUME NEW i \in Inc, Alive(i)
        PROVE  Of(i) \in cmd'[g].todo \/ proc[i].obj \in cmd'[g].found \/ i \in cmd'[g].held \cup cmd'[g].waits
    <3>1. Of(i) \in cmd[g].todo \/ proc[i].obj \in cmd[g].found \/ i \in cmd[g].held \cup cmd[g].waits
      BY <2>1, <2>4 DEF Finding
    <3>2. CASE proc[i].obj = o
      BY <2>2, <2>3, <2>4, <3>2
    <3>3. CASE proc[i].obj # o
      BY <2>3, <3>1, <3>3
    <3> QED BY <3>2, <3>3
  <2>5. \A i \in Inc : Alive(i)' = Alive(i) /\ Of(i)' = Of(i) /\ proc' = proc
    BY <2>1 DEF Alive, Of
  <2> QED BY <2>3, <2>4, <2>5 DEF Finding
<1>6. ASSUME NEW i \in Inc, StopSet(g, i) PROVE Finding(cmd[g])'
  <2>1. /\ cmd[g].pc = "stop" /\ proc' = proc /\ Gone(g, proc[i].obj) = {}
        /\ child' = [child EXCEPT ![proc[i].obj].state = "stopping"]
        /\ cmd' = IF proc[i].os = "reaped"
                  THEN [cmd EXCEPT ![g].held = @ \ {i}, ![g].gone = @ \cup Gone(g, proc[i].obj)]
                  ELSE [cmd EXCEPT ![g].held = @ \ {i}, ![g].waits = @ \cup {i}]
    BY <1>6 DEF StopSet, At, Gone
  <2>2. /\ cmd'[g].op = "Close" /\ cmd'[g].pc = "stop" /\ cmd'[g].todo = cmd[g].todo
        /\ cmd'[g].found = cmd[g].found /\ cmd[g].held \subseteq cmd'[g].held \cup {i}
        /\ cmd[g].waits \subseteq cmd'[g].waits /\ (proc[i].os # "reaped" => i \in cmd'[g].waits)
    <3>1. CASE proc[i].os = "reaped"
      BY <1>1, <2>1, <3>1 DEF Command
    <3>2. CASE proc[i].os # "reaped"
      BY <1>1, <2>1, <3>2 DEF Command
    <3> QED BY <3>1, <3>2
  <2>3. \A o \in Objects : child'[o].id = child[o].id
    BY <2>1 DEF ManagerInv, Typing, Children
  <2>4. \A j \in Inc : Alive(j) => Of(j)' = Of(j)
    BY <2>1, <2>3, AliveIsCmd DEF Of
  <2> QED BY <2>1, <2>2, <2>4 DEF Finding, Alive
<1>7. ASSUME NEW i \in Inc, StopReturns(g, i) PROVE Finding(cmd[g])'
  <2>1. /\ i \in cmd[g].waits /\ UNCHANGED child /\ Gone(g, proc[i].obj) = {}
        /\ proc' = IF ~proc[i].done /\ proc[i].os = "alive" THEN [proc EXCEPT ![i].os = "killed"] ELSE proc
        /\ cmd' = [cmd EXCEPT ![g].waits = @ \ {i}, ![g].gone = @ \cup Gone(g, proc[i].obj)]
        /\ cmd[g].pc \in {"stop", "wait"}
    BY <1>7 DEF StopReturns, At, Gone
  <2>2. /\ cmd'[g].op = "Close" /\ cmd'[g].pc = cmd[g].pc /\ cmd'[g].todo = cmd[g].todo
        /\ cmd'[g].found = cmd[g].found /\ cmd'[g].held = cmd[g].held /\ cmd'[g].waits = cmd[g].waits \ {i}
    BY <1>1, <2>1 DEF Command
  <2>3. proc \in [Inc -> Processes] /\ "killed" \in OsStates
    BY DEF ManagerInv, Typing, OsStates
  <2>4. proc[i].done => proc[i].os # "alive"
    <3>1. proc[i].done => proc[i].run \notin {"none", "enter", "read"}
      BY DEF ManagerInv, Claims, Courses
    <3> QED BY <3>1 DEF ManagerInv, Claims, Courses
  <2>5. \A j \in Inc : Alive(j)' => Alive(j) /\ j # i /\ proc'[j].obj = proc[j].obj
    <3>1. CASE proc' = proc
      BY <2>1, <2>3, <2>4, <3>1, OsSet DEF Alive
    <3>2. CASE proc' = [proc EXCEPT ![i].os = "killed"]
      BY <2>3, <3>2, OsSet DEF Alive
    <3> QED BY <2>1, <3>1, <3>2
  <2> QED BY <2>1, <2>2, <2>5 DEF Finding, Of
<1>8. CASE Stopped(g)
  <2>1. cmd'[g] = [cmd[g] EXCEPT !.pc = "wait"] /\ UNCHANGED <<child, proc>>
    BY <1>1, <1>8 DEF Stopped, objVars
  <2>2. /\ cmd'[g].todo = cmd[g].todo /\ cmd'[g].found = cmd[g].found /\ cmd'[g].held = cmd[g].held
        /\ cmd'[g].waits = cmd[g].waits
    BY <1>1, <2>1 DEF Command
  <2>3. cmd[g].pc = "stop" /\ cmd[g].todo = {} /\ cmd[g].found = {} /\ cmd[g].held = {}
    BY <1>8 DEF Stopped, At
  <2> QED BY <2>1, <2>2, <2>3 DEF Finding, Alive, Of
<1>9. CASE CloseWaits(g) \/ CloseEvents(g)
  <2>1. cmd' = [cmd EXCEPT ![g].pc = "close"] \/ cmd' = [cmd EXCEPT ![g] = Idle]
    BY <1>9 DEF CloseWaits, CloseEvents
  <2>2. cmd'[g].pc = "close" \/ cmd'[g].op # "Close"
    BY <1>1, <1>2, <2>1 DEF Command
  <2> QED BY <2>2 DEF Finding
<1>10. ASSUME NEW o \in Objects, DropEntry(g, o) PROVE FALSE
  BY <1>1, <1>10 DEF DropEntry, OpOf
<1> QED BY <1>1, <1>3, <1>4, <1>5, <1>6, <1>7, <1>8, <1>9, <1>10
        DEF Step, GetOrCreate, StartEnter, StartSpawn, StartFails, StartAbort, StartRunning, StartLaunch,
            RestartAgain, Swap, SwapServer, SeedAndDelete, At

\* What a process and its run goroutine leave alone.
LEMMA RunLeaves ==
  ASSUME ManagerInv, NEW i \in Inc, RunStep(i) \/ ProcEnds(i)
  PROVE  /\ UNCHANGED <<cfg, children, rt, cmd>>
         /\ \A o \in Objects : child'[o].id = child[o].id
         /\ \A j \in Inc : proc'[j].obj = proc[j].obj /\ (Alive(j)' => Alive(j))
<1>1. Typing /\ proc \in [Inc -> Processes] /\ child \in [Objects -> Children]
  BY DEF ManagerInv, Typing
<1>2. \A j \in Inc : proc[j] \in Processes
  BY <1>1
<1>3. CASE ProcEnds(i)
  <2>1. \A j \in Inc : proc'[j].obj = proc[j].obj /\ proc'[j].os = IF j = i THEN "dead" ELSE proc[j].os
    BY <1>1, <1>3, OsSet DEF ProcEnds, OsStates
  <2> QED BY <1>3, <2>1 DEF ProcEnds, cfgVars, Alive
<1>4. CASE RunEnter(i)
  <2>1. proc' = proc \/ \E c : proc' = [proc EXCEPT ![i].run = "read", ![i].serves = c]
    BY <1>4 DEF RunEnter
  <2>2. \A j \in Inc : proc'[j].obj = proc[j].obj /\ proc'[j].os = proc[j].os
    BY <1>1, <1>2, <2>1 DEF Processes
  <2> QED BY <1>4, <2>2 DEF RunEnter, cfgVars, Alive
<1>5. CASE RunReap(i)
  <2>1. proc[i].run = "read"
    BY <1>5 DEF RunReap, RunAt
  <2>2. proc[i].serves = i /\ child[proc[i].obj].waitDone = i /\ ~proc[i].done
    BY <2>1 DEF ManagerInv, Claims, Courses
  <2>3. proc' = [[proc EXCEPT ![i].os = "reaped"] EXCEPT ![i].done = TRUE, ![i].run = "exited"]
    BY <1>5, <2>2 DEF RunReap
  <2>4. \A j \in Inc : proc'[j].obj = proc[j].obj /\ proc'[j].os = IF j = i THEN "reaped" ELSE proc[j].os
    BY <1>1, <1>2, <2>3 DEF Processes
  <2> QED BY <1>5, <2>4 DEF RunReap, cfgVars, Alive
<1>6. CASE RunExited(i) \/ RunClear(i) \/ RunSet(i) \/ RunReturn(i)
  <2>1. \E x \in RunStates : proc' = [proc EXCEPT ![i].run = x]
    BY <1>6 DEF RunExited, RunClear, RunSet, RunReturn, RunStates
  <2>2. \A j \in Inc : proc'[j].obj = proc[j].obj /\ proc'[j].os = proc[j].os
    BY <1>1, <2>1, RunSetTo
  <2>3. \/ child' = child
        \/ child' = [child EXCEPT ![proc[i].obj].cmd = 0]
        \/ child' = [child EXCEPT ![proc[i].obj].state = "idle"]
    BY <1>6 DEF RunExited, RunClear, RunSet, RunReturn
  <2>4. \A o \in Objects : child'[o].id = child[o].id
    BY <1>1, <2>3 DEF Children
  <2> QED BY <1>6, <2>2, <2>4 DEF RunExited, RunClear, RunSet, RunReturn, cfgVars, Alive
<1> QED BY <1>3, <1>4, <1>5, <1>6 DEF RunStep

\* Every step keeps what Close has found.
LEMMA FindingNext ==
  ASSUME Uncrowded, ManagerInv, \A g \in Cmds : Finding(cmd[g]), [Next]_vars, NEW g \in Cmds
  PROVE  Finding(cmd[g])'
<1>1. ManagerInv'
  BY ManagerNext
<1>2. ASSUME closed' = FALSE PROVE Finding(cmd[g])'
  BY <1>1, <1>2 DEF ManagerInv, Control, Closing, Finding
<1>3. ASSUME NEW h \in Cmds, Step(h) PROVE Finding(cmd[g])'
  <2>1. closed' = closed
    BY <1>3 DEF Step, GetOrCreate, StartEnter, StartSpawn, StartFails, StartAbort, StartRunning, StartLaunch,
         RestartAgain, StopIds, StopLookup, StopRead, DropEntry, StopSet, StopReturns, Stopped, CloseWaits,
         CloseEvents, Swap, SwapServer, SeedAndDelete
  <2>2. cmd[h].pc # "ready" /\ \A k \in Cmds \ {h} : cmd'[k] = cmd[k]
    BY <1>3, CommandIs DEF Typing, Step, GetOrCreate, StartEnter, StartSpawn, StartFails, StartAbort, StartRunning, StartLaunch,
         RestartAgain, StopIds, StopLookup, StopRead, DropEntry, StopSet, StopReturns, Stopped, CloseWaits,
         CloseEvents, Swap, SwapServer, SeedAndDelete, At
  <2>3. cmd[h].op # "none"
    BY <2>2, CommandIs DEF OpOf
  <2>4. CASE closed
    <3>1. cmd[h].op = "Close"
      BY <2>3, <2>4 DEF ManagerInv, Control, Closing
    <3>2. CASE g = h
      BY <1>3, <3>1, <3>2, CloseFindsOn
    <3>3. CASE g # h
      BY <2>2, <3>1, <3>3, AloneIs DEF Finding
    <3> QED BY <3>2, <3>3
  <2>5. CASE ~closed
    BY <1>2, <2>1, <2>5 DEF ManagerInv, Typing
  <2> QED BY <2>4, <2>5
<1>4. ASSUME NEW h \in Cmds, BeginCommand(h) PROVE Finding(cmd[g])'
  <2>1. CASE BeginClose(h)
    <3>1. cmd' = [cmd EXCEPT ![h] = [[Idle EXCEPT !.pc = "ids"] EXCEPT !.op = "Close"]]
      BY <2>1 DEF BeginClose, Begin
    <3>2. cmd'[h].op = "Close" /\ cmd'[h].pc = "ids"
      BY <3>1 DEF Idle, ManagerInv, Typing
    <3>3. g # h => cmd'[g].op = "none"
      BY <1>1, <3>2 DEF ManagerInv, Control, Solo
    <3> QED BY <3>2, <3>3 DEF Finding
  <2>2. CASE ~BeginClose(h)
    <3>1. ~closed /\ closed' = closed
      BY <1>4, <2>2 DEF BeginCommand, BeginStart, BeginStop, BeginStartGroup, BeginStopAll, BeginReload, Begin, Uncrowded
    <3> QED BY <1>2, <3>1 DEF ManagerInv, Typing
  <2> QED BY <2>1, <2>2
<1>5. ASSUME NEW i \in Inc, ProcEnds(i) \/ RunStep(i) PROVE Finding(cmd[g])'
  BY <1>5, RunLeaves, FindingStays
<1>6. CASE SourceApplies \/ UNCHANGED vars
  BY <1>6 DEF SourceApplies, vars, objVars, Finding, Alive, Of
<1> QED BY <1>3, <1>4, <1>5, <1>6 DEF Next

\* When Close waits for the run goroutines it has told every process to end (manager.go:124-139).
THEOREM CloseFindsAll == ASSUME Uncrowded PROVE Spec => []CloseFinds
<1> DEFINE Inv == \A g \in Cmds : Finding(cmd[g])
<1>1. Init => Inv
  <2> SUFFICES ASSUME Init, NEW g \in Cmds PROVE Finding(cmd[g])
    OBVIOUS
  <2>1. cmd[g].op = "none"
    BY DEF Init, Idle
  <2> QED BY <2>1 DEF Finding
<1>2. ManagerInv /\ Inv /\ Uncrowded /\ [Next]_vars => Inv'
  BY FindingNext
<1>3. ManagerInv /\ Inv => CloseFinds
  <2> SUFFICES ASSUME ManagerInv, Inv, NEW g \in Cmds, cmd[g].pc = "wait", NEW i \in Inc, Alive(i)
               PROVE  i \in cmd[g].waits
    BY DEF CloseFinds
  <2>1. cmd[g].op = "Close"
    BY CommandIs DEF OpOf
  <2> QED BY <2>1 DEF Finding
<1> HIDE DEF Inv
<1> QED BY <1>1, <1>2, <1>3, ManagerKept, PTL DEF Spec

-----------------------------------------------------------------------------
(* The store shows the children's PIDs, while the source keeps up *)

\* What the store will show of p: the last event under way, or its record.
WillShow(p, v) ==
  \/ rt[p] = v /\ \A i \in DOMAIN events : events[i].id # p
  \/ \E i \in DOMAIN events : /\ events[i].id = p /\ events[i].pid = v
                              /\ \A j \in DOMAIN events : j > i => events[j].id # p

\* An incarnation between its Started and its Exited event.
Shown(i) == proc[i].run \in {"enter", "read", "exited"}
InMap(i) == children[Of(i)] = proc[i].obj

\* The store will show each incarnation of a child in the map whose project was not last told of by another
\* child's exit, and nothing that is not an incarnation.
Followed ==
  /\ \A i \in Inc : Shown(i) /\ InMap(i) /\ Of(i) \notin late => WillShow(Of(i), i)
  /\ \A p \in Projects, i \in Inc : WillShow(p, i) => Shown(i) /\ Of(i) = p

\* What a project's last event, or without one the store, tells.
LEMMA AppendShows ==
  ASSUME Typing, NEW e \in PidEvents, events' = Append(events, e), rt' = rt
  PROVE  \A p \in Projects : \A v : WillShow(p, v)' <=> IF p = e.id THEN v = e.pid ELSE WillShow(p, v)
<1> SUFFICES ASSUME NEW p \in Projects, NEW v
             PROVE  WillShow(p, v)' <=> IF p = e.id THEN v = e.pid ELSE WillShow(p, v)
  OBVIOUS
<1> DEFINE n == Len(events)
<1>1. events \in Seq(PidEvents) /\ n \in Nat
  BY DEF Typing
<1>2. /\ DOMAIN events = 1 .. n /\ DOMAIN events' = 1 .. n + 1
      /\ \A i \in 1 .. n : events'[i] = events[i]
      /\ events'[n + 1] = e
  BY <1>1
<1> HIDE DEF n
<1>3. CASE p = e.id
  BY <1>1, <1>2, <1>3 DEF WillShow
<1>4. CASE p # e.id
  BY <1>1, <1>2, <1>4 DEF WillShow
<1> QED BY <1>3, <1>4

\* The source goroutine shows no more than was to be shown.
LEMMA ApplyShows ==
  ASSUME Typing, SourceApplies
  PROVE  \A p \in Projects : \A v : WillShow(p, v)' <=> WillShow(p, v)
<1> SUFFICES ASSUME NEW p \in Projects, NEW v PROVE WillShow(p, v)' <=> WillShow(p, v)
  OBVIOUS
<1> DEFINE n == Len(events)
           e == events[1]
<1>1. /\ events \in Seq(PidEvents) /\ n \in Nat /\ n > 0 /\ Head(events) = e
      /\ rt \in [Projects -> Inc \cup {0, Absent}]
  BY DEF Typing, TypeOK, SourceApplies
<1>2. events' = Tail(events) /\ rt' = [rt EXCEPT ![e.id] = e.pid]
  BY <1>1 DEF SourceApplies
<1>3. /\ DOMAIN events = 1 .. n /\ DOMAIN events' = 1 .. n - 1 /\ e \in PidEvents
      /\ \A i \in 1 .. n - 1 : events'[i] = events[i + 1]
  BY <1>1, <1>2
<1>4. rt'[p] = IF p = e.id THEN e.pid ELSE rt[p]
  BY <1>1, <1>2, <1>3 DEF PidEvents
<1> HIDE DEF n
<1>5. \A i \in 2 .. n : i - 1 \in 1 .. n - 1 /\ events[i] = events'[i - 1]
  BY <1>1, <1>3
<1>6. ASSUME WillShow(p, v) PROVE WillShow(p, v)'
  <2>1. CASE rt[p] = v /\ \A i \in DOMAIN events : events[i].id # p
    <3>1. 1 \in 1 .. n /\ \A i \in 1 .. n - 1 : i + 1 \in 1 .. n
      BY <1>1
    <3> QED BY <1>3, <1>4, <2>1, <3>1 DEF WillShow
  <2>2. ASSUME NEW i \in DOMAIN events, events[i].id = p, events[i].pid = v,
               \A j \in DOMAIN events : j > i => events[j].id # p
        PROVE  WillShow(p, v)'
    <3>1. \A j \in 1 .. n - 1 : j + 1 \in 1 .. n /\ (j > i - 1 => j + 1 > i)
      BY <1>1, <1>3
    <3>2. \A j \in DOMAIN events' : j > i - 1 => events'[j].id # p
      BY <1>3, <2>2, <3>1
    <3>3. CASE i = 1
      BY <1>3, <1>4, <2>2, <3>2, <3>3 DEF WillShow
    <3>4. CASE i > 1
      <4>1. i \in 2 .. n
        BY <1>1, <1>3, <3>4
      <4>2. i - 1 \in DOMAIN events' /\ events'[i - 1] = events[i]
        BY <1>3, <1>5, <4>1
      <4> QED BY <2>2, <3>2, <4>2 DEF WillShow
    <3> QED BY <1>1, <1>3, <3>3, <3>4
  <2> QED BY <1>6, <2>1, <2>2 DEF WillShow
<1>7. ASSUME WillShow(p, v)' PROVE WillShow(p, v)
  <2>1. CASE rt'[p] = v /\ \A i \in DOMAIN events' : events'[i].id # p
    <3>1. \A i \in 2 .. n : events[i].id # p
      BY <1>3, <1>5, <2>1
    <3>2. CASE e.id = p
      <4>1. 1 \in DOMAIN events /\ \A j \in DOMAIN events : j > 1 => events[j].id # p
        BY <1>1, <1>3, <3>1
      <4> QED BY <1>4, <2>1, <3>2, <4>1 DEF WillShow
    <3>3. CASE e.id # p
      <4>1. \A i \in DOMAIN events : events[i].id # p
        BY <1>1, <1>3, <3>1, <3>3
      <4> QED BY <1>4, <2>1, <3>3, <4>1 DEF WillShow
    <3> QED BY <3>2, <3>3
  <2>2. ASSUME NEW i \in DOMAIN events', events'[i].id = p, events'[i].pid = v,
               \A j \in DOMAIN events' : j > i => events'[j].id # p
        PROVE  WillShow(p, v)
    <3>1. i + 1 \in DOMAIN events /\ events[i + 1] = events'[i]
      BY <1>1, <1>3
    <3>2. \A j \in DOMAIN events : j > i + 1 => events[j].id # p
      <4> SUFFICES ASSUME NEW j \in DOMAIN events, j > i + 1 PROVE events[j].id # p
        OBVIOUS
      <4>1. j \in 2 .. n /\ j - 1 > i
        BY <1>1, <1>3
      <4> QED BY <1>3, <1>5, <2>2, <4>1
    <3> QED BY <2>2, <3>1, <3>2 DEF WillShow
  <2> QED BY <1>7, <2>1, <2>2 DEF WillShow
<1> QED BY <1>6, <1>7

\* A shown incarnation has a child, and that a project.
LEMMA ShownIs ==
  ASSUME ManagerInv, NEW i \in Inc, Shown(i)
  PROVE  /\ proc[i].obj \in Objects /\ proc[i].obj # 0 /\ child[proc[i].obj].id # "none" /\ Of(i) \in Projects
         /\ Running(i) /\ Serving(i) /\ proc[i].os # "none"
<1>1. Running(i) /\ Serving(i) /\ proc[i].os # "none"
  BY DEF Shown, Running, Serving, ManagerInv, Claims, Courses
<1>2. 0 \notin Objects
  BY ManagerAssumption DEF Objects
<1> QED BY <1>1, <1>2, RunIs DEF Of, ManagerInv, Claims, Courses

\* What is shown now stays so while no run goroutine starts or says that it has exited, and the map gets
\* none of their children.
LEMMA ShownStays ==
  ASSUME ManagerInv, Followed, late' = late,
         \A p \in Projects : \A v : WillShow(p, v)' <=> WillShow(p, v),
         \A o \in Objects : child[o].id # "none" => child'[o].id = child[o].id,
         \A i \in Inc : (Shown(i)' <=> Shown(i)) /\ (Shown(i) => proc'[i].obj = proc[i].obj),
         \A p \in Projects, i \in Inc : Shown(i) /\ children'[p] = proc[i].obj => children[p] = proc[i].obj
  PROVE  Followed'
<1>1. \A i \in Inc : Shown(i) => Of(i) \in Projects /\ Of(i)' = Of(i) /\ (InMap(i)' => InMap(i))
  <2> SUFFICES ASSUME NEW i \in Inc, Shown(i) PROVE Of(i) \in Projects /\ Of(i)' = Of(i) /\ (InMap(i)' => InMap(i))
    OBVIOUS
  <2>1. proc[i].obj \in Objects /\ child[proc[i].obj].id # "none" /\ Of(i) \in Projects /\ proc'[i].obj = proc[i].obj
    BY ShownIs
  <2>2. Of(i)' = Of(i)
    BY <2>1 DEF Of
  <2> QED BY <2>1, <2>2 DEF InMap
<1>2. ASSUME NEW i \in Inc, Shown(i)', InMap(i)', Of(i)' \notin late' PROVE WillShow(Of(i), i)'
  <2>1. Shown(i) /\ InMap(i) /\ Of(i) \in Projects /\ Of(i)' = Of(i) /\ Of(i) \notin late
    BY <1>1, <1>2
  <2> QED BY <2>1 DEF Followed
<1>3. ASSUME NEW p \in Projects, NEW i \in Inc, WillShow(p, i)' PROVE Shown(i)' /\ Of(i)' = p
  BY <1>1, <1>3 DEF Followed
<1> QED BY <1>2, <1>3 DEF Followed

\* A command's step that neither starts a run goroutine, nor touches the channel or the store, nor puts a
\* child into the map.
LEMMA PlainStepShows ==
  ASSUME ManagerInv, Followed, UNCHANGED <<events, rt, late>>,
         \A o \in Objects : child[o].id # "none" => child'[o].id = child[o].id,
         \A i \in Inc : Shown(i) \/ Shown(i)' => proc'[i].obj = proc[i].obj /\ proc'[i].run = proc[i].run,
         \A p \in Projects : children'[p] = children[p] \/ children'[p] = 0
  PROVE  Followed'
<1>1. \A p \in Projects : \A v : WillShow(p, v)' <=> WillShow(p, v)
  BY DEF WillShow
<1>2. \A i \in Inc : (Shown(i)' <=> Shown(i)) /\ (Shown(i) => proc'[i].obj = proc[i].obj)
  BY DEF Shown
<1>3. \A p \in Projects, i \in Inc : Shown(i) /\ children'[p] = proc[i].obj => children[p] = proc[i].obj
  BY ShownIs
<1> QED BY <1>1, <1>2, <1>3, ShownStays

\* Most are of that kind.
LEMMA StepShows ==
  ASSUME ManagerInv, Followed, NEW g \in Cmds,
         \/ StartEnter(g) \/ StartFails(g) \/ StartAbort(g) \/ StartRunning(g) \/ RestartAgain(g)
         \/ StopIds(g) \/ (\E p \in Projects : StopLookup(g, p)) \/ (\E o \in Objects : StopRead(g, o))
         \/ (\E i \in Inc : StopSet(g, i)) \/ Stopped(g) \/ CloseWaits(g) \/ CloseEvents(g) \/ SwapServer(g)
         \/ Swap(g) \/ (\E o \in Objects : DropEntry(g, o))
  PROVE  Followed'
<1>1. child \in [Objects -> Children] /\ children \in [Projects -> Objects \cup {0}]
  BY DEF ManagerInv, Typing, TypeOK
<1>2. \A o \in Objects : child'[o].id = child[o].id
  <2>1. child' = child \/ \E o, x : child' = [child EXCEPT ![o].state = x]
    BY DEF StartEnter, StartFails, StartAbort, StartRunning, RestartAgain, StopIds, StopLookup, StopRead, StopSet,
           Stopped, CloseWaits, CloseEvents, SwapServer, Swap, DropEntry, objVars
  <2> QED BY <1>1, <2>1 DEF Children
<1>3. UNCHANGED <<events, rt, late, proc>>
  BY DEF StartEnter, StartFails, StartAbort, StartRunning, RestartAgain, StopIds, StopLookup, StopRead, StopSet,
         Stopped, CloseWaits, CloseEvents, SwapServer, Swap, DropEntry, objVars, chanVars, Announce
<1>4. \A p \in Projects : children'[p] = children[p] \/ children'[p] = 0
  <2>1. children' = children \/ \E q : children' = [children EXCEPT ![q] = 0]
    BY DEF StartEnter, StartFails, StartAbort, StartRunning, RestartAgain, StopIds, StopLookup, StopRead, StopSet,
           Stopped, CloseWaits, CloseEvents, SwapServer, Swap, DropEntry, objVars
  <2> QED BY <1>1, <2>1
<1> QED BY <1>2, <1>3, <1>4, PlainStepShows

\* A new process has no run goroutine yet.
LEMMA SpawnShows ==
  ASSUME ManagerInv, Followed, NEW g \in Cmds, StartSpawn(g)
  PROVE  Followed'
<1> DEFINE o == cmd[g].obj
<1>1. Typing /\ o \in Objects
  BY StartIs DEF StartSpawn, At, StartLabels
<1>2. PICK i \in Inc : /\ proc[i].os = "none"
                       /\ proc' = [proc EXCEPT ![i] = [NoProc EXCEPT !.obj = o, !.os = "alive"]]
                       /\ child' = [child EXCEPT ![o] = [@ EXCEPT !.cmd = i, !.waitDone = i]]
  BY DEF StartSpawn
<1>3. \A q \in Objects : child'[q].id = child[q].id
  BY <1>1, <1>2 DEF Typing, Children
<1>4. proc[i].run = "none" /\ proc'[i].run = "none" /\ \A j \in Inc \ {i} : proc'[j] = proc[j]
  <2>1. proc[i].run = "none"
    BY <1>2 DEF ManagerInv, Claims, Courses
  <2>2. proc \in [Inc -> Processes] /\ NoProc.run = "none"
    BY <1>1 DEF Typing, NoProc
  <2>3. [NoProc EXCEPT !.obj = o, !.os = "alive"].run = "none"
    BY DEF NoProc
  <2> QED BY <1>2, <2>1, <2>2, <2>3
<1>5. \A j \in Inc : Shown(j) \/ Shown(j)' => proc'[j].obj = proc[j].obj /\ proc'[j].run = proc[j].run
  BY <1>4 DEF Shown
<1>6. UNCHANGED <<children, events, rt, late>>
  BY DEF StartSpawn, chanVars
<1> QED BY <1>3, <1>5, <1>6, PlainStepShows

\* A process that is killed has yet to end.
LEMMA ReturnsShows ==
  ASSUME ManagerInv, Followed, NEW g \in Cmds, NEW i \in Inc, StopReturns(g, i)
  PROVE  Followed'
<1>1. proc \in [Inc -> Processes] /\ "killed" \in OsStates
  BY DEF ManagerInv, Typing, OsStates
<1>2. proc' = proc \/ proc' = [proc EXCEPT ![i].os = "killed"]
  BY DEF StopReturns
<1>3. \A j \in Inc : proc'[j].obj = proc[j].obj /\ proc'[j].run = proc[j].run
  BY <1>1, <1>2, OsSet
<1>4. UNCHANGED <<children, child, events, rt, late>>
  BY DEF StopReturns, chanVars
<1> QED BY <1>3, <1>4, PlainStepShows

\* A child made for a project has no process yet.
LEMMA GetShows ==
  ASSUME ManagerInv, Followed, NEW g \in Cmds, GetOrCreate(g)
  PROVE  Followed'
<1> DEFINE p == Head(cmd[g].list)
           fresh == Cardinality(Created) + 1
<1>1. Typing /\ UNCHANGED <<proc, events, rt, late>>
  BY CommandIs DEF GetOrCreate, objVars, chanVars
<1>2. \A i \in Inc : Shown(i)' <=> Shown(i)
  BY <1>1 DEF Shown
<1>3. CASE children[p] # 0 \/ p \notin DOMAIN cfg.projects
  <2>1. child' = child /\ \A q \in Projects : children'[q] = children[q]
    <3>1. CASE children[p] = 0
      BY <1>3, <3>1 DEF GetOrCreate, objVars
    <3>2. CASE children[p] # 0
      <4>1. children' = [children EXCEPT ![p] = children[p]] /\ child' = child
        BY <3>2 DEF GetOrCreate
      <4> QED BY <1>1, <4>1 DEF Typing, TypeOK
    <3> QED BY <3>1, <3>2
  <2> QED BY <1>1, <2>1, PlainStepShows
<1>4. CASE children[p] = 0 /\ p \in DOMAIN cfg.projects
  <2>1. /\ fresh \in Objects /\ children' = [children EXCEPT ![p] = fresh]
        /\ child' = [child EXCEPT ![fresh] = [NoChild EXCEPT !.id = p, !.def = cfg.projects[p]]]
    BY <1>4 DEF GetOrCreate
  <2>2. child[fresh].id = "none"
    <3>1. PICK n \in 0 .. MaxChildren : Cardinality(Created) = n /\ child[n + 1].id = "none"
      BY <1>1, <2>1, FreshIs DEF ManagerInv, Control
    <3> QED BY <3>1
  <2> HIDE DEF fresh, p
  <2>3. \A q \in Objects : child[q].id # "none" => child'[q].id = child[q].id
    BY <1>1, <2>1, <2>2 DEF Typing
  <2>4. \A q \in Projects : children'[q] = children[q] \/ children'[q] = fresh
    BY <1>1, <2>1 DEF Typing, TypeOK
  <2>5. \A q \in Projects, i \in Inc : Shown(i) /\ children'[q] = proc[i].obj => children[q] = proc[i].obj
    BY <2>1, <2>2, <2>4, ShownIs, FreshFree
  <2>6. \A q \in Projects : \A v : WillShow(q, v)' <=> WillShow(q, v)
    BY <1>1 DEF WillShow
  <2> QED BY <1>1, <1>2, <2>3, <2>5, <2>6, ShownStays
<1> QED BY <1>3, <1>4

\* The end of a reload: it deletes records of projects that have no child in the map, and a seeded one shows
\* nothing.
LEMMA SeedShows ==
  ASSUME ManagerInv, Followed, NEW g \in Cmds, SeedAndDelete(g)
  PROVE  Followed'
<1>1. cmd[g].pc = "seed" /\ UNCHANGED <<children, child, proc, events, late>>
  BY DEF SeedAndDelete, At, objVars, chanVars
<1>2. cmd[g].op = "Reload" /\ Reloading(cmd[g])
  BY <1>1, CommandIs DEF OpOf
<1>3. \A p \in Projects : p \in cmd[g].drop => children[p] = 0
  <2>1. \A p \in cmd[g].drop : p \notin DOMAIN cfg.projects
    BY <1>1, <1>2 DEF Reloading
  <2>2. \A p \in Projects : ~Dropping(p)
    <3>1. \A h \in Cmds : cmd[h].op = "Reload" => h = g
      BY <1>2 DEF ManagerInv, Control, Solo
    <3> QED BY <1>1, <3>1 DEF Dropping
  <2> QED BY <2>1, <2>2 DEF ManagerInv, Control, Mapped
<1>4. \A q \in Projects, i \in Inc : /\ rt'[q] = i => rt[q] = i
                                     /\ rt[q] = i /\ q \notin cmd[g].drop => rt'[q] = i
  <2>1. 0 \notin Inc /\ Absent \notin Inc
    BY ManagerAssumption DEF Inc, Absent
  <2> QED BY <2>1 DEF SeedAndDelete
<1>5. \A q \in Projects, i \in Inc : /\ WillShow(q, i)' => WillShow(q, i)
                                     /\ WillShow(q, i) /\ q \notin cmd[g].drop => WillShow(q, i)'
  BY <1>1, <1>4 DEF WillShow
<1>6. \A i \in Inc : Of(i)' = Of(i) /\ (Shown(i)' <=> Shown(i)) /\ (InMap(i)' <=> InMap(i))
  BY <1>1 DEF Of, Shown, InMap
<1>7. \A i \in Inc : Shown(i) /\ InMap(i) => Of(i) \in Projects /\ Of(i) \notin cmd[g].drop
  BY <1>3, ShownIs DEF InMap
<1> QED BY <1>1, <1>5, <1>6, <1>7 DEF Followed

\* Its start is told: no other process of its child is shown.
LEMMA LaunchShows ==
  ASSUME KeepsUp, ManagerInv, Followed, NEW g \in Cmds, StartLaunch(g)
  PROVE  Followed'
<1>1. /\ ~panicked /\ cmd[g].pc = "launch" /\ Emit(child[cmd[g].obj].id, cmd[g].inc)
      /\ proc' = [proc EXCEPT ![cmd[g].inc].run = "enter"]
      /\ late' = late \ {child[cmd[g].obj].id}
      /\ UNCHANGED <<children, child, rt>>
  BY DEF StartLaunch, At
<1>2. /\ Typing /\ open /\ cmd[g].obj \in Objects /\ child[cmd[g].obj].id \in Projects /\ Target(cmd[g])
  BY <1>1, StartIs DEF StartLabels
<1>3. PICK o \in Objects, p \in Projects, i \in Inc :
        /\ o = cmd[g].obj /\ p = child[o].id /\ i = cmd[g].inc
        /\ proc[i].obj = o /\ proc[i].run = "none" /\ proc \in [Inc -> Processes] /\ Starting(g)
        /\ children[p] = o /\ Emit(p, i) /\ proc' = [proc EXCEPT ![i].run = "enter"]
  BY <1>1, <1>2 DEF ManagerInv, Claims, Published, Typing, Starting, Target, StartLabels
<1>4. \A j \in Inc : /\ proc'[j].obj = proc[j].obj
                     /\ proc'[j].run = IF j = i THEN "enter" ELSE proc[j].run
  <2>1. /\ proc \in [Inc -> Processes] /\ proc' = [proc EXCEPT ![i].run = "enter"]
    BY <1>3
  <2>2. "enter" \in RunStates
    BY DEF RunStates
  <2> QED BY <2>1, <2>2, RunSetTo
<1>5. /\ events' = Append(events, [id |-> p, pid |-> i]) /\ [id |-> p, pid |-> i] \in PidEvents
  <2>1. events \in Seq(PidEvents) /\ Len(events) <= EventCap /\ i \in Inc \cup {0}
    BY <1>2, <1>3 DEF Typing, TypeOK
  <2> QED BY <1>1, <1>2, <1>3, <2>1, EmitKeeps DEF PidEvents
<1>6. \A q \in Projects : \A v : WillShow(q, v)' <=> IF q = p THEN v = i ELSE WillShow(q, v)
  <2> DEFINE e == [id |-> p, pid |-> i]
  <2>1. e \in PidEvents /\ e.id = p /\ e.pid = i /\ events' = Append(events, e) /\ rt' = rt
    BY <1>1, <1>5
  <2> HIDE DEF e
  <2> QED BY <1>2, <2>1, AppendShows
<1>7. /\ \A j \in Inc : Of(j)' = Of(j) /\ (InMap(j)' <=> InMap(j))
      /\ \A j \in Inc \ {i} : Shown(j)' <=> Shown(j)
      /\ Of(i) = p /\ Shown(i)' /\ ~Shown(i)
  BY <1>1, <1>3, <1>4 DEF Of, InMap, Shown
<1>8. \A j \in Inc : Shown(j) /\ InMap(j) => Of(j) # p /\ Of(j) \in Projects
  <2> SUFFICES ASSUME NEW j \in Inc, Shown(j), InMap(j), Of(j) = p PROVE FALSE
    BY ShownIs
  <2>1. Serving(j) /\ proc[j].obj = o
    BY <1>3, ShownIs DEF InMap
  <2> QED BY <1>3, <2>1 DEF ManagerInv, Claims, Claimed
<1>9. ASSUME NEW j \in Inc, Shown(j)', InMap(j)', Of(j)' \notin late' PROVE WillShow(Of(j), j)'
  <2>1. CASE j = i
    BY <1>3, <1>6, <1>7, <2>1
  <2>2. CASE j # i
    <3>1. Shown(j) /\ InMap(j) /\ Of(j)' = Of(j) /\ Of(j) # p /\ Of(j) \in Projects
      BY <1>7, <1>8, <1>9, <2>2
    <3>2. Of(j) \notin late
      BY <1>1, <1>3, <1>9, <3>1
    <3> QED BY <1>6, <3>1, <3>2 DEF Followed
  <2> QED BY <2>1, <2>2
<1>10. ASSUME NEW q \in Projects, NEW j \in Inc, WillShow(q, j)' PROVE Shown(j)' /\ Of(j)' = q
  <2>1. CASE q = p
    BY <1>6, <1>7, <1>10, <2>1
  <2>2. CASE q # p
    <3>1. Shown(j) /\ Of(j) = q
      BY <1>6, <1>10, <2>2 DEF Followed
    <3> QED BY <1>7, <3>1
  <2> QED BY <2>1, <2>2
<1> QED BY <1>9, <1>10 DEF Followed

\* The exit is told: nothing of the project in the map is shown any more, or what is is another child's.
LEMMA ExitShows ==
  ASSUME KeepsUp, ManagerInv, Followed, NEW i \in Inc, RunExited(i)
  PROVE  Followed'
<1>1. Typing /\ proc \in [Inc -> Processes]
  BY DEF ManagerInv, Typing
<1>2. UNCHANGED <<children, rt>> /\ \A j \in Inc : proc'[j].obj = proc[j].obj /\ Of(j)' = Of(j)
  BY RunLeaves DEF RunStep, RunExited, Of
<1>3. proc[i].run = "exited" /\ Shown(i)
  BY DEF RunExited, RunAt, Shown
<1>4. PICK p \in Projects : p = Of(i)
  BY <1>3, ShownIs
<1>5. late' = IF children[p] \in {0, proc[i].obj} THEN late ELSE late \cup {p}
  BY <1>4 DEF RunExited, Of
<1>6. events' = Append(events, [id |-> p, pid |-> 0])
  BY <1>4, RunExitedKeeps DEF Of
<1>7. \A q \in Projects : \A v : WillShow(q, v)' <=> IF q = p THEN v = 0 ELSE WillShow(q, v)
  <2> DEFINE e == [id |-> p, pid |-> 0]
  <2>1. e \in PidEvents /\ e.id = p /\ e.pid = 0 /\ events' = Append(events, e) /\ rt' = rt
    BY <1>2, <1>6 DEF PidEvents
  <2> HIDE DEF e
  <2> QED BY <1>1, <2>1, AppendShows
<1>8. \A j \in Inc : proc'[j].run = IF j = i THEN "clear" ELSE proc[j].run
  BY <1>1, RunSetTo DEF RunExited, RunStates
<1>9. \A j \in Inc : (Shown(j)' <=> Shown(j) /\ j # i) /\ (InMap(j)' <=> InMap(j))
  BY <1>2, <1>8 DEF Shown, InMap
<1>10. ASSUME NEW j \in Inc, Shown(j)', InMap(j)', Of(j)' \notin late' PROVE WillShow(Of(j), j)'
  <2>1. Shown(j) /\ InMap(j) /\ j # i /\ Serving(j) /\ Serving(i) /\ Of(j) \in Projects /\ proc[j].obj # 0
    BY <1>3, <1>9, <1>10, ShownIs
  <2>2. Of(j) # p
    <3> SUFFICES ASSUME Of(j) = p PROVE FALSE
      OBVIOUS
    <3>1. proc[j].obj = proc[i].obj
      BY <1>2, <1>5, <1>10, <2>1 DEF InMap
    <3> QED BY <2>1, <3>1 DEF ManagerInv, Claims, Claimed
  <2>3. Of(j) \notin late
    BY <1>2, <1>5, <1>10
  <2> QED BY <1>2, <1>7, <2>1, <2>2, <2>3 DEF Followed
<1>11. ASSUME NEW q \in Projects, NEW j \in Inc, WillShow(q, j)' PROVE Shown(j)' /\ Of(j)' = q
  <2>1. q # p
    <3>1. 0 \notin Inc
      BY ManagerAssumption DEF Inc
    <3> QED BY <1>7, <1>11, <3>1
  <2>2. Shown(j) /\ Of(j) = q
    BY <1>7, <1>11, <2>1 DEF Followed
  <2> QED BY <1>2, <1>4, <1>9, <2>1, <2>2
<1> QED BY <1>10, <1>11 DEF Followed

\* A process, and a run goroutine that only goes on.
LEMMA RunShows ==
  ASSUME ManagerInv, Followed, NEW i \in Inc, RunStep(i) \/ ProcEnds(i), ~RunExited(i)
  PROVE  Followed'
<1>1. Typing /\ proc \in [Inc -> Processes]
  BY DEF ManagerInv, Typing
<1>2. \A j \in Inc : proc[j] \in Processes
  BY <1>1
<1>3. UNCHANGED <<events, rt, late>>
  BY DEF RunStep, ProcEnds, RunEnter, RunReap, RunClear, RunSet, RunReturn, Announce, chanVars
<1>4. \A j \in Inc : Shown(j)' <=> Shown(j)
  <2>1. CASE ProcEnds(i)
    <3>1. \A j \in Inc : proc'[j].run = proc[j].run
      BY <1>1, <2>1, OsSet DEF ProcEnds, OsStates
    <3> QED BY <3>1 DEF Shown
  <2>2. CASE RunEnter(i)
    <3>1. proc[i].run = "enter" /\ (proc' = proc \/ \E c : proc' = [proc EXCEPT ![i].run = "read", ![i].serves = c])
      BY <2>2 DEF RunEnter, RunAt
    <3>2. \A j \in Inc : proc'[j].run = proc[j].run \/ (j = i /\ proc'[j].run = "read")
      BY <1>1, <1>2, <3>1 DEF Processes
    <3> QED BY <3>1, <3>2 DEF Shown
  <2>3. CASE RunReap(i)
    <3>1. proc[i].run = "read"
      BY <2>3 DEF RunReap, RunAt
    <3>2. proc[i].serves = i /\ child[proc[i].obj].waitDone = i /\ ~proc[i].done
      BY <3>1 DEF ManagerInv, Claims, Courses
    <3>3. proc' = [[proc EXCEPT ![i].os = "reaped"] EXCEPT ![i].done = TRUE, ![i].run = "exited"]
      BY <2>3, <3>2 DEF RunReap
    <3>4. \A j \in Inc : proc'[j].run = IF j = i THEN "exited" ELSE proc[j].run
      BY <1>1, <1>2, <3>3 DEF Processes
    <3> QED BY <3>1, <3>4 DEF Shown
  <2>4. CASE RunClear(i) \/ RunSet(i) \/ RunReturn(i)
    <3>1. /\ proc[i].run \in {"clear", "set", "return"}
          /\ \E x \in {"set", "return", "done"} : x \in RunStates /\ proc' = [proc EXCEPT ![i].run = x]
      BY <2>4 DEF RunClear, RunSet, RunReturn, RunAt, RunStates
    <3>2. \A j \in Inc : proc'[j].run = proc[j].run \/ (j = i /\ proc'[j].run \in {"set", "return", "done"})
      BY <1>1, <3>1, RunSetTo
    <3> QED BY <3>1, <3>2 DEF Shown
  <2> QED BY <2>1, <2>2, <2>3, <2>4 DEF RunStep
<1>5. \A q \in Projects : \A v : WillShow(q, v)' <=> WillShow(q, v)
  BY <1>3 DEF WillShow
<1> QED BY <1>3, <1>4, <1>5, RunLeaves, ShownStays

\* A command that begins changes nothing of that.
LEMMA BeginShows ==
  ASSUME ManagerInv, Followed, NEW g \in Cmds, BeginCommand(g)
  PROVE  Followed'
<1>1. UNCHANGED <<children, child, proc, events, rt, late>>
  BY DEF BeginCommand, BeginStart, BeginStop, BeginStartGroup, BeginStopAll, BeginClose, BeginReload, Begin,
         objVars, chanVars
<1> QED BY <1>1, PlainStepShows

\* Every step keeps what the store will show.
LEMMA FollowedNext ==
  ASSUME KeepsUp, ManagerInv, Followed, [Next]_vars
  PROVE  Followed'
<1>1. ASSUME NEW g \in Cmds, Step(g) PROVE Followed'
  <2>1. CASE GetOrCreate(g) \/ StartSpawn(g) \/ StartLaunch(g) \/ SeedAndDelete(g) \/ \E i \in Inc : StopReturns(g, i)
    BY <2>1, GetShows, SpawnShows, LaunchShows, SeedShows, ReturnsShows
  <2>2. CASE \/ StartEnter(g) \/ StartFails(g) \/ StartAbort(g) \/ StartRunning(g) \/ RestartAgain(g)
             \/ StopIds(g) \/ (\E p \in Projects : StopLookup(g, p)) \/ (\E o \in Objects : StopRead(g, o))
             \/ (\E i \in Inc : StopSet(g, i)) \/ Stopped(g) \/ CloseWaits(g) \/ CloseEvents(g) \/ SwapServer(g)
             \/ Swap(g) \/ (\E o \in Objects : DropEntry(g, o))
    BY <2>2, StepShows
  <2> QED BY <1>1, <2>1, <2>2 DEF Step
<1>2. ASSUME NEW g \in Cmds, BeginCommand(g) PROVE Followed'
  BY <1>2, BeginShows
<1>3. ASSUME NEW i \in Inc, ProcEnds(i) \/ RunStep(i) PROVE Followed'
  BY <1>3, RunShows, ExitShows
<1>4. CASE SourceApplies
  <2>1. UNCHANGED <<children, child, proc, late>>
    BY <1>4 DEF SourceApplies, objVars
  <2> QED BY <1>4, <2>1, ApplyShows, ShownStays DEF ManagerInv, Shown
<1>5. CASE UNCHANGED vars
  BY <1>5, PlainStepShows DEF vars, objVars, chanVars
<1> QED BY <1>1, <1>2, <1>3, <1>4, <1>5 DEF Next

\* While the source goroutine keeps up, the store settles on showing no process but those there are, and each of
\* them whose project was not last told of by the late exit of a dropped child (server.go:314-320;
\* runtime.go:51-130).
THEOREM StoreShowsChildren == ASSUME Uncrowded, KeepsUp PROVE Spec => []StoreSettles
<1>1. Init => Followed
  <2> SUFFICES ASSUME Init PROVE Followed
    OBVIOUS
  <2>1. /\ \A i \in Inc : proc[i].run = "none"
        /\ \A p \in Projects : rt[p] \in {0, Absent}
        /\ DOMAIN events = {}
    BY DEF Init, NoProc
  <2>2. 0 \notin Inc /\ Absent \notin Inc
    BY ManagerAssumption DEF Inc, Absent
  <2> QED BY <2>1, <2>2 DEF Followed, Shown, WillShow
<1>2. KeepsUp /\ ManagerInv /\ Followed /\ [Next]_vars => Followed'
  BY FollowedNext
<1>3. ManagerInv /\ Followed => StoreSettles
  <2> SUFFICES ASSUME ManagerInv, Followed, Quiet, NEW p \in DOMAIN cfg.projects, NEW i \in Inc
               PROVE  /\ rt[p] = i => Alive(i) /\ Of(i) = p
                      /\ Alive(i) /\ Of(i) = p => rt[p] = i \/ p \in late
    BY DEF StoreSettles
  <2>1. p \in Projects /\ DOMAIN events = {}
    BY ManagerAssumption DEF ManagerInv, Typing, TypeOK, Quiet
  <2>2. WillShow(p, i) <=> rt[p] = i
    BY <2>1 DEF WillShow
  <2>3. ASSUME rt[p] = i PROVE Alive(i) /\ Of(i) = p
    <3>1. Shown(i) /\ Of(i) = p
      BY <2>1, <2>2, <2>3 DEF Followed
    <3> QED BY <3>1 DEF Shown, Quiet, Leaving, Running, Alive
  <2>4. ASSUME Alive(i), Of(i) = p, p \notin late PROVE rt[p] = i
    <3>1. proc[i].run \in {"none", "enter", "read"}
      BY <2>4 DEF Alive, ManagerInv, Claims, Courses
    <3>2. proc[i].run # "none"
      <4>1. \A g \in Cmds : cmd[g].pc = "ready"
        BY DEF Quiet, Busy
      <4> QED BY <2>4, <4>1 DEF Alive, ManagerInv, Claims, Courses
    <3>3. WillShow(Of(i), i)
      BY <2>4, <3>1, <3>2 DEF Followed, Shown, InMap, ManagerInv, Control, Reachable
    <3> QED BY <2>2, <2>4, <3>3
  <2> QED BY <2>3, <2>4
<1> QED BY <1>1, <1>2, <1>3, ManagerKept, PTL DEF Spec
===============================================================================
