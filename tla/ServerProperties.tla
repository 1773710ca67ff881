-------------------------- MODULE ServerProperties --------------------------
(***************************************************************************)
(* What the daemon's server promises a client, and itself.                 *)
(***************************************************************************)
EXTENDS Server

EnvSet == {NoEnv} \cup {StateEnv(p, s) : p \in Projects, s \in RunStates}
          \cup {LogEnv(p, n) : p \in Projects, n \in 1 .. MaxEvents}
          \cup [kind : {"snapshot"}, states : [Projects -> RunStates],
                lines : [Projects -> Seq(1 .. MaxEvents)]]

\* Every queue within its cap, and every goroutine somewhere.
TypeOK ==
  /\ rt \in [Projects -> RunStates]
  /\ emitted \in 0 .. MaxEvents
  /\ Len(events) <= EventCap
  /\ \A p \in Projects : ring[p] \in Seq(1 .. MaxEvents) /\ Len(ring[p]) <= RingCap
  /\ client \in Conns \cup {0} /\ accepting \in Conns \cup {0, -1}
  /\ shutdown \in BOOLEAN
  /\ serve \in {"serving", "closing", "drained", "returned"}
  /\ source \in {"loop", "done"}
  /\ \A k \in Conns : LET r == conn[k] IN
       /\ r.phase \in {"new", "dialled", "registered"}
       /\ r.ctrl \in Seq(EnvSet) /\ Len(r.ctrl) <= CtrlCap
       /\ r.logq \in Seq(EnvSet) /\ Len(r.logq) <= LogCap
       /\ r.writer \in {"off", "wait", "write", "drop", "done"}
       /\ r.reader \in {"off", "read", "unregister", "done"}
       /\ r.hand \in EnvSet /\ (r.hand = NoEnv <=> r.writer # "write")

-----------------------------------------------------------------------------
(* Invariants *)

\* What the client will show once the envelope in the writer's hand is written.
InHand(k) == IF conn[k].hand = NoEnv THEN conn[k] ELSE Applied(conn[k], conn[k].hand)

\* An envelope that tells a client the state of p, and the state it tells.
Tells(env, p) == env.kind = "snapshot" \/ (env.kind = "state" /\ env.id = p)
Told(env, p) == IF env.kind = "state" THEN env.state ELSE env.states[p]

\* A mirror v shows p in state s once the envelopes of q are written: the last one to
\* tell of p tells s, or none tells and v shows it already.
CaughtUp(v, q, p, s) ==
  \/ v[p] = s /\ \A i \in DOMAIN q : ~Tells(q[i], p)
  \/ \E i \in DOMAIN q : /\ Tells(q[i], p) /\ Told(q[i], p) = s
                         /\ \A j \in DOMAIN q : j > i => ~Tells(q[j], p)

\* k is the client, and no write to it has failed.
Served(k) == client = k /\ ~conn[k].closed /\ conn[k].writer # "drop"

\* A client that is not dropped misses no state the source has applied: its
\* mirror, brought up to date with what is queued for it, is the runtime store
\* (doc.go:13-16; the snapshot is built between two events, doc.go:8-11; a full
\* control queue drops the client instead of an event, client_conn.go:61-67).
\* And an open connection that is read from is that client: the late unregister
\* of the one it took over from does not orphan it (server.go:147-158).
Handoff ==
  \A k \in Conns :
    /\ Served(k) => \A p \in Projects : CaughtUp(InHand(k).view, conn[k].ctrl, p, rt[p])
    /\ conn[k].reader = "read" /\ ~conn[k].closed => client = k

Increasing(s) == \A i, j \in DOMAIN s : i < j => s[i] < s[j]

\* No log line reaches a client twice or out of order, though snapshot lines
\* and live lines travel in different queues (doc.go:8-11;
\* client_conn.go:82-101).
LogOrder ==
  \A k \in Conns, p \in Projects : Increasing(conn[k].lines[p])

-----------------------------------------------------------------------------
(* Action and liveness properties *)

\* A requested shutdown ends, whatever the clients do (server.go:78-98).
ShutdownEnds == shutdown ~> serve = "returned"

\* Both goroutines of a connection end once it is closed or its peer is gone,
\* also when nobody is left to receive their unregister (server.go:239-253).
NoGoroutineLeak ==
  \A k \in Conns :
    conn[k].phase # "new" /\ (conn[k].closed \/ ~conn[k].peer)
      ~> conn[k].writer = "done" /\ conn[k].reader \in {"off", "done"}

\* When the source goroutine ends it tears down a client that has been sent
\* every state change (doc.go:18-20, server.go:79-80, 96).
FinalEventsSent ==
  [][source = "loop" /\ source' = "done" /\ client # 0
       => \A i \in DOMAIN conn[client].ctrl : conn[client].ctrl[i].kind # "state"]_vars
=============================================================================
