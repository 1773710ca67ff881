----------------------------- MODULE LaunchProofs -----------------------------
(***************************************************************************)
(* Theorems about daemons and the files they share (module Launch), for    *)
(* every set of users and every number of daemons, commands and crashes,   *)
(* while one command runs at a time and its timeouts are long enough       *)
(* (Orderly): the run of the out-of-order commands refutes them without.   *)
(***************************************************************************)
EXTENDS LaunchProperties, FiniteSetTheorems, TLAPS

UserLabels == {"idle", "attached", "dial", "probeOpen", "probeLock", "probeUnlock", "clean", "spawn",
               "wait", "connect", "killDial", "killWait", "killRead", "killTerm"}
OwnerLabels == {"removeStale", "listen", "serving", "closing", "removeChildren", "removeSocket", "removePid"}
DaemonLabels == {"none", "open", "lock", "unlock", "dead"} \cup OwnerLabels
StartLabels == {"open", "lock", "removeStale", "listen"}
LaunchLabels == {"dial", "probeOpen", "probeLock", "probeUnlock", "clean", "spawn"}

\* TypeOK in parts: where the processes are, what the files are, and the rest.
Places ==
  /\ pc \in [Procs -> UserLabels \cup DaemonLabels]
  /\ \A u \in Users : pc[u] \in UserLabels
  /\ \A d \in Daemons : pc[d] \in DaemonLabels /\ (pc[d] = "none" <=> d > spawned)
  /\ \A u \in Users : target[u] # 0 <=> pc[u] = "killWait"
  /\ target \in [Users -> Daemons \cup {0}]
Files ==
  /\ pidFile \in 0 .. inodes /\ inodes \in Nat
  /\ fd \in [Procs -> 0 .. inodes]
  /\ locked \subseteq Procs /\ \A p \in locked : fd[p] # 0
  /\ sockFile \in Daemons \cup {0}
Tallies ==
  /\ alive \subseteq Daemons /\ record \subseteq Daemons /\ unsaved \subseteq Daemons
  /\ asked \subseteq Daemons /\ warned \subseteq Daemons
  /\ orphans \subseteq Users /\ recs \in [Users -> SUBSET Daemons]
  /\ commands \in 0 .. MaxCommands /\ spawned \in 0 .. MaxDaemons
  /\ crashes \in 0 .. MaxCrashes

\* Every pidfile but the one that is there was unlinked by a daemon of its own,
Gone == {d \in Daemons : pc[d] \in {"unlock", "dead"}}
Unlinked == inodes <= Cardinality(Gone) + IF pidFile = 0 THEN 0 ELSE 1

\* and a launch has a daemon to spawn.
Spawnable == \A u \in Users : pc[u] \in LaunchLabels => spawned < MaxDaemons

Typing == Places /\ Files /\ Tallies /\ Unlinked /\ Spawnable

OneCommand ==
  \A u, v \in Users : pc[u] \notin {"idle", "attached"} /\ pc[v] \notin {"idle", "attached"} => u = v

\* A lock is held by one process, a launch that probes or a daemon on its way.
Locks ==
  /\ \A p \in locked : \/ p \in Users /\ pc[p] = "probeUnlock"
                       \/ p \in Daemons /\ pc[p] \in OwnerLabels \cup {"unlock"}
  /\ \A p, q \in locked : fd[p] = fd[q] => p = q

\* An owner holds the lock on the pidfile that is there.
Owned == \A d \in Daemons : pc[d] \in OwnerLabels => d \in locked /\ fd[d] = pidFile

\* A daemon that starts is alone, its launch waits for it, and nobody unlinks the pidfile
\* between its open and its flock.
Started ==
  \A d \in Daemons : pc[d] \in StartLabels =>
    /\ \E u \in Users : pc[u] = "wait"
    /\ \A e \in Daemons : pc[e] \in StartLabels \cup OwnerLabels => e = d
    /\ pc[d] = "lock" => fd[d] = pidFile /\ pidFile # 0

\* A launch that probes has the pidfile of the owner, if there is one; once it had the lock
\* there is none.
Probed ==
  \A u \in Users :
    /\ pc[u] = "probeLock" => fd[u] # 0 /\ \A d \in Daemons : pc[d] \in OwnerLabels => fd[u] = pidFile
    /\ pc[u] \in {"probeUnlock", "clean", "spawn"} => \A d \in Daemons : pc[d] \notin OwnerLabels

\* A kill has waited for the only daemon that served.
Killed ==
  \A u \in Users, d \in Daemons : pc[d] = "serving" =>
    /\ pc[u] = "killWait" => d = target[u]
    /\ pc[u] \notin {"killRead", "killTerm"}

\* A daemon that does not serve yet has no child and no record.
Recorded ==
  /\ \A d \in unsaved : pc[d] \in {"serving", "closing"}
  /\ \A d \in Daemons : pc[d] \in {"none"} \cup StartLabels => d \notin alive /\ d \notin record
  /\ RecordTrue

\* What holds of the lock, the pidfile, the socket and the record together.
Protocol == OneCommand /\ Locks /\ Owned /\ Started /\ Probed /\ Reachable /\ Killed /\ Recorded
LaunchInv == Typing /\ Protocol

USE LaunchAssumption
    DEF Procs, Daemons, UserLabels, OwnerLabels, DaemonLabels, StartLabels, LaunchLabels,
        fileVars, childVars, userVars, Goto

-----------------------------------------------------------------------------
(* Sets and types *)

\* A user is no daemon, and no daemon is 0, the value for none.
LEMMA Disjoint == ASSUME NEW u \in Users, NEW d \in Daemons PROVE u # d /\ d # 0 /\ u # 0
  OBVIOUS

\* The daemons that have unlinked their pidfile or are dead are finitely many,
LEMMA GoneBounded == IsFiniteSet(Gone) /\ Cardinality(Gone) \in 0 .. MaxDaemons
<1>1. IsFiniteSet(Daemons) /\ Cardinality(Daemons) = MaxDaemons
  BY FS_Interval
<1>2. Gone \subseteq Daemons
  BY DEF Gone
<1>3. IsFiniteSet(Gone) /\ Cardinality(Gone) <= Cardinality(Daemons)
  BY <1>1, <1>2, FS_Subset
<1> QED BY <1>1, <1>3, FS_CardinalityType

\* and they only become more (DaemonRemovePid, DaemonUnlock, DaemonCrash).
LEMMA GoneGrows ==
  ASSUME Gone \subseteq Gone'
  PROVE  /\ Cardinality(Gone) \in Nat /\ Cardinality(Gone') \in Nat
         /\ Cardinality(Gone) <= Cardinality(Gone')
         /\ \A d \in Gone' \ Gone : Cardinality(Gone) + 1 <= Cardinality(Gone')
<1>1. IsFiniteSet(Gone) /\ Cardinality(Gone) \in Nat
  BY GoneBounded
<1>2. IsFiniteSet(Gone')
  <2>1. IsFiniteSet(Daemons) /\ Gone' \subseteq Daemons
    BY FS_Interval DEF Gone
  <2> QED BY <2>1, FS_Subset
<1>3. Cardinality(Gone') \in Nat /\ Cardinality(Gone) <= Cardinality(Gone')
  BY <1>2, FS_Subset, FS_CardinalityType
<1>4. ASSUME NEW d \in Gone' \ Gone PROVE Cardinality(Gone) + 1 <= Cardinality(Gone')
  <2>1. Cardinality(Gone \cup {d}) = Cardinality(Gone) + 1
    BY <1>1, FS_AddElement
  <2>2. Gone \cup {d} \subseteq Gone'
    OBVIOUS
  <2>3. Cardinality(Gone \cup {d}) <= Cardinality(Gone')
    BY <1>2, <2>2, FS_Subset
  <2> QED BY <2>1, <2>3
<1> QED BY <1>1, <1>3, <1>4

\* The inodes there can be follow from the daemons there can be.
LEMMA TypingImpliesTypeOK == Typing => TypeOK
  BY GoneBounded DEF Typing, TypeOK, Places, Files, Tallies, Unlinked

\* At most one daemon owns the pidfile: the lock is on the one that is there.
LEMMA LockImpliesOneDaemon == LaunchInv => OneDaemon
<1> SUFFICES ASSUME LaunchInv PROVE Cardinality(Owners) <= 1
  BY TypingImpliesTypeOK DEF LaunchInv, Protocol, OneDaemon
<1>1. \A d, e \in Owners : d = e
  BY DEF LaunchInv, Protocol, Locks, Owned, Owners
<1>2. CASE Owners = {}
  BY <1>2, FS_EmptySet
<1>3. CASE Owners # {}
  <2>1. PICK d \in Owners : TRUE
    BY <1>3
  <2>2. Owners = {d}
    BY <1>1, <2>1
  <2> QED BY <2>2, FS_Singleton
<1> QED BY <1>2, <1>3

-----------------------------------------------------------------------------
(* The parts of Typing that count *)

\* Opening the pidfile makes an inode only when there is none, and the daemon that unlinks it
\* is gone (acquireDaemonLock, daemonLockFree, the deferred os.Remove).
LEMMA UnlinkedKept == ASSUME LaunchInv, Next PROVE Unlinked'
<1>1. Gone \subseteq Gone'
  <2>1. ASSUME NEW u \in Users,
               UserStep(u) \/ LaunchBegins(u) \/ KillBegins(u) \/ Detach(u) \/ QuitAndShutdown(u)
        PROVE  Gone \subseteq Gone'
    BY <2>1, Disjoint
    DEF LaunchInv, Typing, Places, Tallies, Spawnable, Gone, UserStep, LaunchBegins, KillBegins, Detach,
        QuitAndShutdown, LaunchDial, ProbeOpen, ProbeLock, ProbeUnlock, LaunchClean, LaunchSpawn,
        LaunchWait, LaunchConnect, KillDial, KillWait, KillRead, KillTerm, AfterShutdown
  <2>2. ASSUME NEW d \in Daemons, DaemonStep(d) \/ DaemonCrash(d) PROVE Gone \subseteq Gone'
    BY <2>2
    DEF LaunchInv, Typing, Places, Gone, DaemonStep, DaemonCrash, DaemonOpen, DaemonLock,
        DaemonRemoveStale, DaemonListen, DaemonCloses, DaemonDrained, DaemonRemoveChildren,
        DaemonRemoveSocket, DaemonRemovePid, DaemonUnlock
  <2>3. ASSUME NEW d \in Daemons, ChildStarts(d) \/ ChildExits(d) \/ PersistChildren(d)
        PROVE  Gone \subseteq Gone'
    BY <2>3 DEF Gone, ChildStarts, ChildExits, PersistChildren
  <2> QED BY <2>1, <2>2, <2>3 DEF Next
<1>2. \/ UNCHANGED <<pidFile, inodes>>
      \/ \E p \in Procs : OpenPidFile(p)
      \/ \E d \in Daemons : DaemonRemovePid(d)
  <2>1. ASSUME NEW u \in Users,
               UserStep(u) \/ LaunchBegins(u) \/ KillBegins(u) \/ Detach(u) \/ QuitAndShutdown(u)
        PROVE  OpenPidFile(u) \/ UNCHANGED <<pidFile, inodes>>
    BY <2>1
    DEF UserStep, LaunchBegins, KillBegins, Detach, QuitAndShutdown, LaunchDial, ProbeOpen, ProbeLock,
        ProbeUnlock, LaunchClean, LaunchSpawn, LaunchWait, LaunchConnect, KillDial, KillWait, KillRead,
        KillTerm
  <2>2. ASSUME NEW d \in Daemons, DaemonStep(d) \/ DaemonCrash(d)
        PROVE  OpenPidFile(d) \/ DaemonRemovePid(d) \/ UNCHANGED <<pidFile, inodes>>
    BY <2>2
    DEF DaemonStep, DaemonCrash, DaemonOpen, DaemonLock, DaemonRemoveStale, DaemonListen, DaemonCloses,
        DaemonDrained, DaemonRemoveChildren, DaemonRemoveSocket, DaemonUnlock
  <2>3. ASSUME NEW d \in Daemons, ChildStarts(d) \/ ChildExits(d) \/ PersistChildren(d)
        PROVE  UNCHANGED <<pidFile, inodes>>
    BY <2>3 DEF ChildStarts, ChildExits, PersistChildren
  <2> QED BY <2>1, <2>2, <2>3 DEF Next
<1>3. inodes \in Nat /\ pidFile \in 0 .. inodes /\ Unlinked
  BY DEF LaunchInv, Typing, Files
<1>4. CASE UNCHANGED <<pidFile, inodes>>
  BY <1>1, <1>3, <1>4, GoneGrows DEF Unlinked
<1>5. ASSUME NEW p \in Procs, OpenPidFile(p) PROVE Unlinked'
  BY <1>1, <1>3, <1>5, GoneGrows DEF Unlinked, OpenPidFile
<1>6. ASSUME NEW d \in Daemons, DaemonRemovePid(d) PROVE Unlinked'
  <2>1. d \in Gone' \ Gone /\ pidFile' = 0 /\ inodes' = inodes
    BY <1>6 DEF LaunchInv, Typing, Places, Gone, DaemonRemovePid
  <2> QED BY <1>1, <1>3, <2>1, GoneGrows DEF Unlinked
<1> QED BY <1>2, <1>4, <1>5, <1>6

-----------------------------------------------------------------------------
(* The actions, one by one: what they are and do to the files and          *)
(* processes, and then to the protocol.  A daemon's label is no user's.    *)
Parts == Places /\ Files /\ Tallies /\ Spawnable

USE Disjoint
    DEF LaunchInv, Typing, Parts, Places, Files, Tallies, Spawnable, Protocol, OneCommand, Locks, Owned,
        Started, Probed, Reachable, Killed, Recorded, RecordTrue

\* A launch begins when no other command runs: a daemon is left for it to spawn.
LEMMA LaunchBeginsKeeps ==
  ASSUME LaunchInv, Orderly, NEW u \in Users, LaunchBegins(u)
  PROVE  Parts' /\ Protocol'
<1>1. Parts'
  <2>1. Launching = {}
    BY DEF LaunchBegins, MayBegin, Launching
  <2>2. spawned < MaxDaemons
    BY <2>1, FS_EmptySet DEF LaunchBegins
  <2>3. Places'
    BY DEF LaunchBegins, MayBegin
  <2>4. Spawnable'
    BY <2>2 DEF LaunchBegins
  <2>5. Files' /\ Tallies'
    BY DEF LaunchBegins, MayBegin
  <2> QED BY <2>3, <2>4, <2>5
<1>2. Protocol'
  BY DEF LaunchBegins, MayBegin
<1> QED BY <1>1, <1>2

\* A launch that dials finds a daemon that serves, or goes on to probe.
LEMMA LaunchDialKeeps ==
  ASSUME LaunchInv, Orderly, NEW u \in Users, LaunchDial(u)
  PROVE  Parts' /\ Protocol'
<1>1. Parts'
  BY DEF LaunchDial, Accepting
<1>2. Protocol'
  BY DEF LaunchDial, Accepting
<1> QED BY <1>1, <1>2

\* The probe opens the pidfile that is there, the owner's; it makes one when nobody owns it.
LEMMA ProbeOpenKeeps ==
  ASSUME LaunchInv, Orderly, NEW u \in Users, ProbeOpen(u)
  PROVE  Parts' /\ Protocol'
<1>1. Parts'
  BY DEF ProbeOpen, OpenPidFile
<1>2. Protocol'
  BY DEF ProbeOpen, OpenPidFile
<1> QED BY <1>1, <1>2

\* The probe gets the lock only when no daemon owns the pidfile it has open.
LEMMA ProbeLockKeeps ==
  ASSUME LaunchInv, Orderly, NEW u \in Users, ProbeLock(u)
  PROVE  Parts' /\ Protocol'
<1>1. Parts'
  BY DEF ProbeLock, LockFree
<1>2. Protocol'
  <2>1. (OneCommand /\ Locks)'
    BY DEF ProbeLock, LockFree
  <2>2. Owned'
    BY DEF ProbeLock, LockFree
  <2>3. Started'
    BY DEF ProbeLock, LockFree
  <2>4. Probed'
    BY DEF ProbeLock, LockFree
  <2>5. Reachable'
    BY DEF ProbeLock, LockFree
  <2>6. Killed'
    BY DEF ProbeLock, LockFree
  <2>7. Recorded'
    BY DEF ProbeLock, LockFree
  <2> QED BY <2>1, <2>2, <2>3, <2>4, <2>5, <2>6, <2>7
<1> QED BY <1>1, <1>2

\* The probe lets the lock go before it spawns, and there still is no owner.
LEMMA ProbeUnlockKeeps ==
  ASSUME LaunchInv, Orderly, NEW u \in Users, ProbeUnlock(u)
  PROVE  Parts' /\ Protocol'
<1>1. Parts'
  BY DEF ProbeUnlock
<1>2. Protocol'
  BY DEF ProbeUnlock
<1> QED BY <1>1, <1>2

\* RemoveStaleSocket takes the path from nobody: there is no owner.
LEMMA LaunchCleanKeeps ==
  ASSUME LaunchInv, Orderly, NEW u \in Users, LaunchClean(u)
  PROVE  Parts' /\ Protocol'
<1>1. Parts'
  BY DEF LaunchClean
<1>2. Protocol'
  BY DEF LaunchClean
<1> QED BY <1>1, <1>2

\* The daemon that is spawned starts alone: there is no owner, and its launch is the one command.
LEMMA LaunchSpawnKeeps ==
  ASSUME LaunchInv, Orderly, NEW u \in Users, LaunchSpawn(u)
  PROVE  Parts' /\ Protocol'
<1>1. Parts'
  BY DEF LaunchSpawn
<1>2. Protocol'
  <2>1. /\ spawned' \in Daemons /\ pc[spawned'] = "none" /\ pc'[spawned'] = "open" /\ pc'[u] = "wait"
        /\ \A q \in Procs : q \notin {u, spawned'} => pc'[q] = pc[q]
    BY DEF LaunchSpawn
    <2>2. (OneCommand /\ Locks)'
    BY <2>1 DEF LaunchSpawn
  <2>3. Owned'
    BY <2>1 DEF LaunchSpawn
  <2>4. Started'
    BY <2>1 DEF LaunchSpawn
  <2>5. Probed'
    BY <2>1 DEF LaunchSpawn
  <2>6. Reachable'
    BY <2>1 DEF LaunchSpawn
  <2>7. Killed'
    BY <2>1 DEF LaunchSpawn
  <2>8. Recorded'
    BY <2>1 DEF LaunchSpawn
  <2> QED BY <2>2, <2>3, <2>4, <2>5, <2>6, <2>7, <2>8
<1> QED BY <1>1, <1>2

\* A launch gives up on a daemon that starts only when none does.
LEMMA LaunchWaitKeeps ==
  ASSUME LaunchInv, Orderly, NEW u \in Users, LaunchWait(u)
  PROVE  Parts' /\ Protocol'
<1>1. Parts'
  BY DEF LaunchWait, Accepting, Starting
<1>2. Protocol'
  BY DEF LaunchWait, Accepting, Starting
<1> QED BY <1>1, <1>2

\* client.Dial changes no file.
LEMMA LaunchConnectKeeps ==
  ASSUME LaunchInv, Orderly, NEW u \in Users, LaunchConnect(u)
  PROVE  Parts' /\ Protocol'
<1>1. Parts'
  BY DEF LaunchConnect, Accepting
<1>2. Protocol'
  BY DEF LaunchConnect, Accepting
<1> QED BY <1>1, <1>2

\* The TUI that ends changes no file.
LEMMA DetachKeeps ==
  ASSUME LaunchInv, Orderly, NEW u \in Users, Detach(u)
  PROVE  Parts' /\ Protocol'
<1>1. Parts'
  BY DEF Detach
<1>2. Protocol'
  BY DEF Detach
<1> QED BY <1>1, <1>2

\* A TUI that goes on to shut the daemon down is the one command.
LEMMA QuitAndShutdownKeeps ==
  ASSUME LaunchInv, Orderly, NEW u \in Users, QuitAndShutdown(u)
  PROVE  Parts' /\ Protocol'
<1>1. Parts'
  BY DEF QuitAndShutdown
<1>2. Protocol'
  BY DEF QuitAndShutdown
<1> QED BY <1>1, <1>2

\* A kill begins when no other command runs.
LEMMA KillBeginsKeeps ==
  ASSUME LaunchInv, Orderly, NEW u \in Users, KillBegins(u)
  PROVE  Parts' /\ Protocol'
<1>1. Parts'
  BY DEF KillBegins, MayBegin
<1>2. Protocol'
  BY DEF KillBegins, MayBegin
<1> QED BY <1>1, <1>2

\* A kill asks the daemon that serves; when none accepts none serves, so it may read the record.
LEMMA KillDialKeeps ==
  ASSUME LaunchInv, Orderly, NEW u \in Users, KillDial(u)
  PROVE  Parts' /\ Protocol'
<1>1. Parts'
  <2>1. Accepting => sockFile \in Daemons
    BY DEF Accepting
  <2>2. Places' /\ Files' /\ Spawnable'
    BY <2>1 DEF KillDial, AfterShutdown
  <2>3. \A d \in asked' : d \in asked \/ (Accepting /\ d = sockFile)
    BY ONLY KillDial(u) DEF KillDial
  <2>4. asked' \subseteq Daemons
    BY <2>1, <2>3
  <2>5. Tallies'
    BY ONLY <2>4, LaunchInv, KillDial(u)
    DEF LaunchInv, Typing, Tallies, KillDial, childVars
  <2> QED BY <2>2, <2>5
<1>2. Protocol'
  <2>1. (OneCommand /\ Locks)'
    BY DEF KillDial, Accepting, AfterShutdown
  <2>2. Owned'
    BY DEF KillDial, Accepting, AfterShutdown
  <2>3. Started'
    BY DEF KillDial, Accepting, AfterShutdown
  <2>4. Probed'
    BY DEF KillDial, Accepting, AfterShutdown
  <2>5. Reachable'
    BY DEF KillDial, Accepting, AfterShutdown
  <2>6. Killed'
    BY DEF KillDial, Accepting, AfterShutdown
  <2>7. Recorded'
    BY DEF KillDial, Accepting, AfterShutdown
  <2> QED BY <2>1, <2>2, <2>3, <2>4, <2>5, <2>6, <2>7
<1> QED BY <1>1, <1>2

\* A kill goes on once its daemon, the only one, has closed: none serves.
LEMMA KillWaitKeeps ==
  ASSUME LaunchInv, Orderly, NEW u \in Users, KillWait(u)
  PROVE  Parts' /\ Protocol'
<1>1. Parts'
  BY DEF KillWait, AfterShutdown
<1>2. Protocol'
  BY DEF KillWait, AfterShutdown
<1> QED BY <1>1, <1>2

\* The children that are read are those of daemons that serve no more.
LEMMA KillReadKeeps ==
  ASSUME LaunchInv, Orderly, NEW u \in Users, KillRead(u)
  PROVE  Parts' /\ Protocol'
<1>1. Parts'
  BY DEF KillRead
<1>2. Protocol'
  BY DEF KillRead
<1> QED BY <1>1, <1>2

\* The record that kill --orphans removes is of no daemon that serves.
LEMMA KillTermKeeps ==
  ASSUME LaunchInv, Orderly, NEW u \in Users, KillTerm(u)
  PROVE  Parts' /\ Protocol'
<1>1. Parts'
  BY DEF KillTerm
<1>2. Protocol'
  BY DEF KillTerm
<1> QED BY <1>1, <1>2

\* The daemon opens the pidfile that is there, or makes it: it is the only one that starts.
LEMMA DaemonOpenKeeps ==
  ASSUME LaunchInv, Orderly, NEW d \in Daemons, DaemonOpen(d)
  PROVE  Parts' /\ Protocol'
<1>1. Parts'
  BY DEF DaemonOpen, OpenPidFile
<1>2. Protocol'
  BY DEF DaemonOpen, OpenPidFile
<1> QED BY <1>1, <1>2

\* The lock is the daemon's when no other daemon holds it on this pidfile.
LEMMA DaemonLockKeeps ==
  ASSUME LaunchInv, Orderly, NEW d \in Daemons, DaemonLock(d)
  PROVE  Parts' /\ Protocol'
<1>1. Parts'
  <2>1. Places' /\ Spawnable'
    BY DEF DaemonLock
  <2>2. Files' /\ Tallies'
    BY DEF DaemonLock
  <2> QED BY <2>1, <2>2
<1>2. Protocol'
  <2>1. (OneCommand /\ Locks)'
    BY DEF DaemonLock, LockFree
  <2>2. Owned'
    BY DEF DaemonLock, LockFree
  <2>3. Started'
    BY DEF DaemonLock, LockFree
  <2>4. Probed'
    BY DEF DaemonLock, LockFree
  <2>5. Reachable'
    BY DEF DaemonLock, LockFree
  <2>6. Killed'
    BY DEF DaemonLock, LockFree
  <2>7. Recorded'
    BY DEF DaemonLock, LockFree
  <2> QED BY <2>1, <2>2, <2>3, <2>4, <2>5, <2>6, <2>7
<1> QED BY <1>1, <1>2

\* The socket that is removed belongs to no daemon that serves.
LEMMA DaemonRemoveStaleKeeps ==
  ASSUME LaunchInv, Orderly, NEW d \in Daemons, DaemonRemoveStale(d)
  PROVE  Parts' /\ Protocol'
<1>1. Parts'
  BY DEF DaemonRemoveStale
<1>2. Protocol'
  BY DEF DaemonRemoveStale
<1> QED BY <1>1, <1>2

\* The socket is bound by the owner, so its path leads to the daemon that serves.
LEMMA DaemonListenKeeps ==
  ASSUME LaunchInv, Orderly, NEW d \in Daemons, DaemonListen(d)
  PROVE  Parts' /\ Protocol'
<1>1. Parts'
  BY DEF DaemonListen
<1>2. Protocol'
  BY DEF DaemonListen
<1> QED BY <1>1, <1>2

\* The listener unlinks its own socket.
LEMMA DaemonClosesKeeps ==
  ASSUME LaunchInv, Orderly, NEW d \in Daemons, DaemonCloses(d)
  PROVE  Parts' /\ Protocol'
<1>1. Parts'
  BY DEF DaemonCloses
<1>2. Protocol'
  BY DEF DaemonCloses
<1> QED BY <1>1, <1>2

\* Its last child is out of the record with it.
LEMMA DaemonDrainedKeeps ==
  ASSUME LaunchInv, Orderly, NEW d \in Daemons, DaemonDrained(d)
  PROVE  Parts' /\ Protocol'
<1>1. Parts'
  BY DEF DaemonDrained
<1>2. Protocol'
  BY DEF DaemonDrained
<1> QED BY <1>1, <1>2

\* The children file that is removed is of a daemon that serves no more.
LEMMA DaemonRemoveChildrenKeeps ==
  ASSUME LaunchInv, Orderly, NEW d \in Daemons, DaemonRemoveChildren(d)
  PROVE  Parts' /\ Protocol'
<1>1. Parts'
  BY DEF DaemonRemoveChildren
<1>2. Protocol'
  BY DEF DaemonRemoveChildren
<1> QED BY <1>1, <1>2

\* The socket is removed a second time before the pidfile is: nobody else has bound it.
LEMMA DaemonRemoveSocketKeeps ==
  ASSUME LaunchInv, Orderly, NEW d \in Daemons, DaemonRemoveSocket(d)
  PROVE  Parts' /\ Protocol'
<1>1. Parts'
  BY DEF DaemonRemoveSocket
<1>2. Protocol'
  BY DEF DaemonRemoveSocket
<1> QED BY <1>1, <1>2

\* The daemon unlinks its own pidfile, and owns nothing any more.
LEMMA DaemonRemovePidKeeps ==
  ASSUME LaunchInv, Orderly, NEW d \in Daemons, DaemonRemovePid(d)
  PROVE  Parts' /\ Protocol'
<1>1. Parts'
  BY DEF DaemonRemovePid
<1>2. Protocol'
  BY DEF DaemonRemovePid
<1> QED BY <1>1, <1>2

\* The lock it gives back is on a pidfile that is gone.
LEMMA DaemonUnlockKeeps ==
  ASSUME LaunchInv, Orderly, NEW d \in Daemons, DaemonUnlock(d)
  PROVE  Parts' /\ Protocol'
<1>1. Parts'
  BY DEF DaemonUnlock, Released
<1>2. Protocol'
  BY DEF DaemonUnlock, Released
<1> QED BY <1>1, <1>2

\* The kernel frees the lock of a daemon that dies; its files stay.
LEMMA DaemonCrashKeeps ==
  ASSUME LaunchInv, Orderly, NEW d \in Daemons, DaemonCrash(d)
  PROVE  Parts' /\ Protocol'
<1>1. Parts'
  BY DEF DaemonCrash, Released
<1>2. Protocol'
  BY DEF DaemonCrash, Released
<1> QED BY <1>1, <1>2

\* A child that starts is not in the record, until persistChildren has run.
LEMMA ChildStartsKeeps ==
  ASSUME LaunchInv, Orderly, NEW d \in Daemons, ChildStarts(d)
  PROVE  Parts' /\ Protocol'
<1>1. Parts'
  BY DEF ChildStarts
<1>2. Protocol'
  BY DEF ChildStarts
<1> QED BY <1>1, <1>2

\* A child that exits is in the record, until persistChildren has run.
LEMMA ChildExitsKeeps ==
  ASSUME LaunchInv, Orderly, NEW d \in Daemons, ChildExits(d)
  PROVE  Parts' /\ Protocol'
<1>1. Parts'
  BY DEF ChildExits
<1>2. Protocol'
  BY DEF ChildExits
<1> QED BY <1>1, <1>2

\* persistChildren writes the children of the daemon that serves, the only one.
LEMMA PersistChildrenKeeps ==
  ASSUME LaunchInv, Orderly, NEW d \in Daemons, PersistChildren(d)
  PROVE  Parts' /\ Protocol'
<1>1. Parts'
  BY DEF PersistChildren
<1>2. Protocol'
  BY DEF PersistChildren
<1> QED BY <1>1, <1>2

-----------------------------------------------------------------------------
(* Theorems *)

\* Every step keeps the invariant.
LEMMA LaunchNext == ASSUME LaunchInv, Orderly, Next PROVE LaunchInv'
<1>1. ASSUME NEW u \in Users,
             UserStep(u) \/ LaunchBegins(u) \/ KillBegins(u) \/ Detach(u) \/ QuitAndShutdown(u)
      PROVE  Parts' /\ Protocol'
  BY ONLY <1>1, Orderly, LaunchInv, LaunchBeginsKeeps, LaunchDialKeeps, ProbeOpenKeeps,
     ProbeLockKeeps, ProbeUnlockKeeps, LaunchCleanKeeps, LaunchSpawnKeeps, LaunchWaitKeeps,
     LaunchConnectKeeps, DetachKeeps, QuitAndShutdownKeeps, KillBeginsKeeps, KillDialKeeps,
     KillWaitKeeps, KillReadKeeps, KillTermKeeps
  DEF UserStep
<1>2. ASSUME NEW d \in Daemons, DaemonStep(d) \/ DaemonCrash(d)
      PROVE  Parts' /\ Protocol'
  BY ONLY <1>2, Orderly, LaunchInv, DaemonOpenKeeps, DaemonLockKeeps, DaemonRemoveStaleKeeps,
     DaemonListenKeeps, DaemonClosesKeeps, DaemonDrainedKeeps, DaemonRemoveChildrenKeeps,
     DaemonRemoveSocketKeeps, DaemonRemovePidKeeps, DaemonUnlockKeeps, DaemonCrashKeeps
  DEF DaemonStep
<1>3. ASSUME NEW d \in Daemons, ChildStarts(d) \/ ChildExits(d) \/ PersistChildren(d)
      PROVE  Parts' /\ Protocol'
  BY ONLY <1>3, Orderly, LaunchInv, ChildStartsKeeps, ChildExitsKeeps, PersistChildrenKeeps
<1>4. Parts' /\ Protocol'
  BY ONLY <1>1, <1>2, <1>3, Next DEF Next
<1> QED BY ONLY <1>4, UnlinkedKept, LaunchInv, Next DEF LaunchInv, Typing, Parts

\* For every set of users and every number of daemons, commands and crashes, the daemons' locks,
\* files and labels keep the invariant while one command runs at a time (daemon_run.go, launch.go).
THEOREM LaunchKept == ASSUME Orderly PROVE Spec => []LaunchInv
<1>1. Init => LaunchInv
  <2> SUFFICES ASSUME Init PROVE LaunchInv
    OBVIOUS
  <2>1. Parts
    BY DEF Init
  <2>2. Unlinked
    BY GoneBounded DEF Init, Unlinked
  <2>3. Protocol
    BY DEF Init
  <2> QED BY <2>1, <2>2, <2>3
<1>2. LaunchInv /\ [Next]_vars => LaunchInv'
  <2> SUFFICES ASSUME LaunchInv, [Next]_vars PROVE LaunchInv'
    OBVIOUS
  <2>1. CASE Next
    BY ONLY <2>1, LaunchInv, Orderly, LaunchNext
  <2>2. CASE UNCHANGED vars
    BY <2>2 DEF vars, Unlinked, Gone
  <2> QED BY <2>1, <2>2
<1> QED BY <1>1, <1>2, PTL DEF Spec

\* At most one daemon owns the pidfile, and the path of the socket leads to it while it serves,
\* through orderly exits and crashes (daemon_run.go:51-68).
THEOREM OneDaemonKept == ASSUME Orderly PROVE Spec => []OneDaemon
<1>1. LaunchInv => OneDaemon
  BY LockImpliesOneDaemon
<1> QED BY <1>1, LaunchKept, PTL

\* The children file tells the truth of the daemon that serves (orphans.go:12-14; server.go:225-236).
THEOREM RecordsTrue == ASSUME Orderly PROVE Spec => []RecordTrue
<1>1. LaunchInv => RecordTrue
  OBVIOUS
<1> QED BY <1>1, LaunchKept, PTL
===============================================================================
