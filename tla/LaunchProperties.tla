-------------------------- MODULE LaunchProperties --------------------------
(***************************************************************************)
(* What starting, stopping and crashing daemons must preserve.             *)
(***************************************************************************)
EXTENDS Launch

\* Daemons that have found themselves to be the only one.
Owners == {d \in Daemons : pc[d] \in {"removeStale", "listen", "serving", "closing",
                                      "removeChildren", "removeSocket", "removePid"}}

TypeOK ==
  /\ pidFile \in 0 .. inodes /\ inodes \in 0 .. MaxDaemons + 1
  /\ fd \in [Procs -> 0 .. inodes]
  /\ locked \subseteq Procs /\ \A p \in locked : fd[p] # 0
  /\ sockFile \in Daemons \cup {0}
  /\ alive \subseteq Daemons /\ record \subseteq Daemons /\ unsaved \subseteq Daemons
  /\ asked \subseteq Daemons /\ warned \subseteq Daemons
  /\ \A d \in Daemons : pc[d] = "none" <=> d > spawned
  /\ \A u \in Users : target[u] # 0 <=> pc[u] = "killWait"
  /\ orphans \subseteq Users /\ recs \in [Users -> SUBSET Daemons]
  /\ commands \in 0 .. MaxCommands /\ spawned \in 0 .. MaxDaemons
  /\ crashes \in 0 .. MaxCrashes

-----------------------------------------------------------------------------
(* Invariants *)

\* The path of the socket leads to the daemon that serves: neither a launch
\* nor the exit of its predecessor unlinks it (launch.go:107-112;
\* daemon_run.go:60-68).
Reachable == \A d \in Daemons : pc[d] = "serving" => sockFile = d

\* The pidfile lock leaves one daemon for a config (daemon_run.go:51-54), and that
\* one reachable, through orderly exits that unlink the locked file and through
\* crashes; a lock is only ever held through an open pidfile (TypeOK).
OneDaemon == TypeOK /\ Cardinality(Owners) <= 1 /\ Reachable

\* What the children file says of a daemon that serves is true, once its
\* source goroutine has seen the last start or exit: a predecessor's cleanup
\* or a kill --orphans does not remove it (orphans.go:12-14; server.go:225-236).
RecordTrue ==
  \A d \in Daemons : pc[d] = "serving" /\ d \notin unsaved => (d \in record <=> d \in alive)

-----------------------------------------------------------------------------
(* Action and liveness properties *)

\* A crashed daemon never blocks the next start (daemon_run.go:51-54): a launch
\* that finds no daemon attaches to one, unless that one crashes too.
NextStartWorks ==
  \A u \in Users, n \in 0 .. MaxCrashes :
    pc[u] = "dial" /\ (\A d \in Daemons : pc[d] \in {"none", "dead"}) /\ crashes = n
      ~> pc[u] = "attached" \/ crashes # n

\* A launch, a kill and a daemon that was asked to stop come to their end.
CommandsEnd ==
  /\ \A u \in Users : pc[u] \notin {"idle", "attached"} ~> pc[u] \in {"idle", "attached"}
  /\ \A d \in Daemons : d \in asked ~> pc[d] = "dead"

\* The orphans that procs warns of are stopped by the command the warning
\* names (launch.go:170; README.md:115, 326).
WarnedOrphansStopped ==
  [][\A u \in Users : pc[u] = "killTerm" /\ pc'[u] = "idle" => warned \cap alive' = {}]_vars
=============================================================================
