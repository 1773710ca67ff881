------------------------------- MODULE Server -------------------------------
(***************************************************************************)
(* The daemon's server (internal/daemon/server.go, client_conn.go) between *)
(* the manager's event channel and the TUI clients that come and go        *)
(* (internal/client/client.go).                                            *)
(*                                                                         *)
(* One source goroutine owns the runtime store, the log rings and the      *)
(* choice of the client.  A connection has two queues, drained by a writer *)
(* goroutine that prefers control over log envelopes, and a reader         *)
(* goroutine that notices the peer's end.  What a writer has written is    *)
(* taken as applied by the client: the socket keeps the order, and what is *)
(* in it survives the daemon's close.                                      *)
(*                                                                         *)
(* Abstracted: the commands (they go to the manager, module Child), toasts *)
(* and status replies, and reload, whose Seed and Delete bypass the source *)
(* goroutine.  A control event is a change of one project's record.        *)
(***************************************************************************)
EXTENDS Integers, SequencesExt

CONSTANTS
  Projects, RunStates,
  Conns,      \* connections, in the order of their numbers
  EventCap,   \* eventsBufSize
  LogCap,     \* maxLogQueue
  CtrlCap,    \* maxCtrlQueue
  RingCap,    \* settings.log_buffer_lines
  MaxEvents   \* bound: events the children emit

ASSUME ServerAssumption ==
  /\ "idle" \in RunStates
  /\ Conns \subseteq Nat \ {0}
  /\ EventCap \in Nat \ {0} /\ LogCap \in Nat \ {0}
  /\ CtrlCap \in Nat \ {0} /\ RingCap \in Nat \ {0}
  /\ MaxEvents \in Nat

VARIABLES
  events,    \* the manager's event channel
  emitted,   \* events emitted so far
  rt, ring,  \* the runtime store and the broadcast rings
  client,    \* s.client, 0 for nil
  accepting, \* the connection acceptLoop is registering, 0 in ln.Accept, -1 returned
  conn,      \* the connections
  shutdown,  \* shutdownReq is closed
  serve,     \* where ListenAndServe is
  source     \* where the source goroutine is

vars == <<events, emitted, rt, ring, client, accepting, conn, shutdown, serve, source>>
srcVars == <<events, emitted, rt, ring, source>>

Drained == serve \in {"drained", "returned"}

NoEnv == [kind |-> "none"]
StateEnv(p, s) == [kind |-> "state", id |-> p, state |-> s]
LogEnv(p, n) == [kind |-> "log", id |-> p, line |-> n]
Snapshot == [kind |-> "snapshot", states |-> rt, lines |-> ring]

NewConn == [phase  |-> "new",   \* "new", "dialled", "registered"
            ctrl   |-> <<>>, logq |-> <<>>, closed |-> FALSE,
            writer |-> "off",   \* "off", "wait", "write", "drop", "done"
            hand   |-> NoEnv,   \* the envelope the writer has taken
            reader |-> "off",   \* "off", "read", "unregister", "done"
            peer   |-> TRUE,    \* the TUI at the other end is there
            view   |-> [p \in Projects |-> "idle"],
            lines  |-> [p \in Projects |-> <<>>]]

Init ==
  /\ events = <<>> /\ emitted = 0
  /\ rt = [p \in Projects |-> "idle"] /\ ring = [p \in Projects |-> <<>>]
  /\ client = 0 /\ accepting = 0
  /\ conn = [k \in Conns |-> NewConn]
  /\ shutdown = FALSE /\ serve = "serving" /\ source = "loop"

-----------------------------------------------------------------------------
(* The children: emit drops what the channel has no room for *)

Emit(ev) ==
  /\ ~Drained /\ emitted < MaxEvents
  /\ emitted' = emitted + 1
  /\ events' = IF Len(events) < EventCap THEN Append(events, ev) ELSE events
  /\ UNCHANGED <<rt, ring, client, accepting, conn, shutdown, serve, source>>

ChildChangesState(p) == \E s \in RunStates : Emit(StateEnv(p, s))

ChildWritesLine(p) == Emit(LogEnv(p, emitted + 1))

-----------------------------------------------------------------------------
(* A connection *)

\* close: the writer looks at closed first, so what is queued is never written.
CloseConn(r) == [r EXCEPT !.closed = TRUE, !.ctrl = <<>>, !.logq = <<>>]

\* Mutant: a full control queue drops the envelope.
EnqueuedLossy(r, env) ==
  CASE r.closed -> r
    [] ~r.closed /\ env.kind = "log" ->
         [r EXCEPT !.logq = Append(IF Len(@) >= LogCap THEN Tail(@) ELSE @, env)]
    [] OTHER ->
         IF Len(r.ctrl) >= CtrlCap THEN r ELSE [r EXCEPT !.ctrl = Append(@, env)]

\* Mutant: a full log queue grows.
EnqueuedUnbounded(r, env) ==
  CASE r.closed -> r
    [] ~r.closed /\ env.kind = "log" -> [r EXCEPT !.logq = Append(@, env)]
    [] OTHER ->
         IF Len(r.ctrl) >= CtrlCap THEN CloseConn(r)
         ELSE [r EXCEPT !.ctrl = Append(@, env)]

\* enqueue: the log queue drops its oldest line, a full control queue drops
\* the client.
Enqueued(r, env) ==
  CASE r.closed -> r
    [] ~r.closed /\ env.kind = "log" ->
         [r EXCEPT !.logq = Append(IF Len(@) >= LogCap THEN Tail(@) ELSE @, env)]
    [] OTHER ->
         IF Len(r.ctrl) >= CtrlCap THEN CloseConn(r)
         ELSE [r EXCEPT !.ctrl = Append(@, env)]

\* What the client makes of an envelope.
Applied(r, env) ==
  CASE env.kind = "state" -> [r EXCEPT !.view[env.id] = env.state]
    [] env.kind = "log" -> [r EXCEPT !.lines[env.id] = Append(@, env.line)]
    [] env.kind = "snapshot" ->
         [r EXCEPT !.view = env.states,
                   !.lines = [p \in Projects |-> @[p] \o env.lines[p]]]

\* Mutant: whichever queue has something.
WriterTakesAny(k) ==
  /\ conn[k].writer = "wait" /\ ~conn[k].closed
  /\ \/ /\ conn[k].ctrl # <<>>
        /\ conn' = [conn EXCEPT ![k].hand = Head(conn[k].ctrl),
                                ![k].ctrl = Tail(@), ![k].writer = "write"]
     \/ /\ conn[k].logq # <<>>
        /\ conn' = [conn EXCEPT ![k].hand = Head(conn[k].logq),
                                ![k].logq = Tail(@), ![k].writer = "write"]
  /\ UNCHANGED <<srcVars, client, accepting, shutdown, serve>>

\* writeLoop takes an envelope, control first ...
WriterTakes(k) ==
  /\ conn[k].writer = "wait" /\ ~conn[k].closed
  /\ \/ /\ conn[k].ctrl # <<>>
        /\ conn' = [conn EXCEPT ![k].hand = Head(conn[k].ctrl),
                                ![k].ctrl = Tail(@), ![k].writer = "write"]
     \/ /\ conn[k].ctrl = <<>> /\ conn[k].logq # <<>>
        /\ conn' = [conn EXCEPT ![k].hand = Head(conn[k].logq),
                                ![k].logq = Tail(@), ![k].writer = "write"]
  /\ UNCHANGED <<srcVars, client, accepting, shutdown, serve>>

\* ... and writes it,
WriterWrites(k) ==
  /\ conn[k].writer = "write" /\ ~conn[k].closed /\ conn[k].peer
  /\ conn' = [conn EXCEPT ![k] = [Applied(@, @.hand) EXCEPT !.hand = NoEnv,
                                                            !.writer = "wait"]]
  /\ UNCHANGED <<srcVars, client, accepting, shutdown, serve>>

\* or fails: the connection is closed, the peer is gone, or it is too slow.
WriterFails(k) ==
  /\ conn[k].writer = "write"
  /\ conn' = [conn EXCEPT ![k].hand = NoEnv, ![k].writer = "drop"]
  /\ UNCHANGED <<srcVars, client, accepting, shutdown, serve>>

WriterEnds(k) ==
  /\ conn[k].writer = "wait" /\ conn[k].closed
  /\ conn' = [conn EXCEPT ![k].writer = "done"]
  /\ UNCHANGED <<srcVars, client, accepting, shutdown, serve>>

\* Mutant: the channel send alone, without the case for shutdown.
DropAtShutdownNever(k) == FALSE

\* dropClient and unregisterClient give up once shutdown is requested.
DropAtShutdown(k) ==
  /\ shutdown
  /\ \/ /\ conn[k].writer = "drop"
        /\ conn' = [conn EXCEPT ![k] = [CloseConn(@) EXCEPT !.writer = "done"]]
     \/ /\ conn[k].reader = "unregister"
        /\ conn' = [conn EXCEPT ![k] = [CloseConn(@) EXCEPT !.reader = "done"]]
  /\ UNCHANGED <<srcVars, client, accepting, shutdown, serve>>

\* readLoop sees the end of the connection.
ReaderEnds(k) ==
  /\ conn[k].reader = "read" /\ (conn[k].closed \/ ~conn[k].peer)
  /\ conn' = [conn EXCEPT ![k].reader = "unregister"]
  /\ UNCHANGED <<srcVars, client, accepting, shutdown, serve>>

\* A client's OpShutdown, or a signal to the daemon.
RequestShutdown ==
  /\ ~shutdown /\ shutdown' = TRUE
  /\ UNCHANGED <<srcVars, client, accepting, conn, serve>>

PeerQuits(k) ==
  /\ conn[k].phase # "new" /\ conn[k].peer
  /\ conn' = [conn EXCEPT ![k].peer = FALSE]
  /\ UNCHANGED <<srcVars, client, accepting, shutdown, serve>>

-----------------------------------------------------------------------------
(* acceptLoop: one connection at a time *)

Accept(k) ==
  /\ serve = "serving" /\ accepting = 0
  /\ conn[k].phase = "new" /\ \A j \in Conns : j < k => conn[j].phase # "new"
  /\ conn' = [conn EXCEPT ![k].phase = "dialled", ![k].writer = "wait"]
  /\ accepting' = k
  /\ UNCHANGED <<srcVars, client, shutdown, serve>>

AcceptAtShutdown(k) ==
  /\ shutdown /\ accepting = k
  /\ conn' = [conn EXCEPT ![k] = CloseConn(@)]
  /\ accepting' = -1
  /\ UNCHANGED <<srcVars, client, shutdown, serve>>

-----------------------------------------------------------------------------
(* sourceLoop *)

\* applyAndForward.
SourceEvent ==
  /\ source = "loop" /\ events # <<>>
  /\ LET ev == Head(events) IN
     /\ IF ev.kind = "state"
        THEN rt' = [rt EXCEPT ![ev.id] = ev.state] /\ UNCHANGED ring
        ELSE /\ ring' = [ring EXCEPT ![ev.id] =
                           Append(IF Len(@) >= RingCap THEN Tail(@) ELSE @, ev.line)]
             /\ UNCHANGED rt
     /\ conn' = IF client = 0 THEN conn
                ELSE [conn EXCEPT ![client] = Enqueued(@, ev)]
  /\ events' = Tail(events)
  /\ UNCHANGED <<emitted, client, accepting, shutdown, serve, source>>

\* A new client takes over; its snapshot is built here, between two events.
SourceRegisters(k) ==
  /\ source = "loop" /\ accepting = k
  /\ conn' = [j \in Conns |->
       IF j = k
       THEN [Enqueued(conn[k], Snapshot) EXCEPT !.phase = "registered", !.reader = "read"]
       ELSE IF j = client THEN CloseConn(conn[j]) ELSE conn[j]]
  /\ client' = k /\ accepting' = 0
  /\ UNCHANGED <<srcVars, shutdown, serve>>

\* Only the current client is forgotten: a connection that was taken over
\* unregisters late.
SourceUnregisters(k) ==
  /\ source = "loop"
  /\ \/ /\ conn[k].writer = "drop"
        /\ conn' = [conn EXCEPT ![k] = [CloseConn(@) EXCEPT !.writer = "done"]]
     \/ /\ conn[k].reader = "unregister"
        /\ conn' = [conn EXCEPT ![k] = [CloseConn(@) EXCEPT !.reader = "done"]]
  /\ client' = IF client = k THEN 0 ELSE client
  /\ UNCHANGED <<srcVars, accepting, shutdown, serve>>

\* Mutant: the source waits for the client to go first.
SourceEndsLast ==
  /\ source = "loop" /\ Drained /\ events = <<>> /\ client = 0
  /\ source' = "done"
  /\ UNCHANGED <<events, emitted, rt, ring, client, conn, accepting, shutdown, serve>>

\* The channel is closed and empty.
SourceEnds ==
  /\ source = "loop" /\ Drained /\ events = <<>>
  /\ conn' = IF client = 0 THEN conn ELSE [conn EXCEPT ![client] = CloseConn(@)]
  /\ client' = 0 /\ source' = "done"
  /\ UNCHANGED <<events, emitted, rt, ring, accepting, shutdown, serve>>

-----------------------------------------------------------------------------
(* ListenAndServe, once shutdown is requested *)

CloseListener ==
  /\ serve = "serving" /\ shutdown /\ serve' = "closing"
  /\ UNCHANGED <<srcVars, client, accepting, conn, shutdown>>

\* mgr.Close returns: the children are gone and the channel is closed.
ManagerClosed ==
  /\ serve = "closing" /\ serve' = "drained"
  /\ UNCHANGED <<srcVars, client, accepting, conn, shutdown>>

ServeReturns ==
  /\ serve = "drained" /\ source = "done" /\ serve' = "returned"
  /\ UNCHANGED <<srcVars, client, accepting, conn, shutdown>>

-----------------------------------------------------------------------------
WriterStep(k) == WriterTakes(k) \/ WriterWrites(k) \/ WriterFails(k) \/ WriterEnds(k)
SourceStep == SourceEvent \/ SourceEnds
ServeStep == CloseListener \/ ManagerClosed \/ ServeReturns

Next ==
  \/ \E p \in Projects : ChildChangesState(p) \/ ChildWritesLine(p)
  \/ \E k \in Conns : WriterStep(k) \/ DropAtShutdown(k) \/ ReaderEnds(k) \/ PeerQuits(k)
  \/ \E k \in Conns : Accept(k) \/ AcceptAtShutdown(k)
  \/ \E k \in Conns : SourceRegisters(k) \/ SourceUnregisters(k)
  \/ SourceStep \/ ServeStep \/ RequestShutdown

Spec == Init /\ [][Next]_vars

\* While a goroutine can run, one does; mgr.Close returns (module Manager shows when).
Goroutines ==
  \/ \E k \in Conns : \/ WriterStep(k) \/ DropAtShutdown(k) \/ ReaderEnds(k)
                     \/ AcceptAtShutdown(k) \/ SourceRegisters(k) \/ SourceUnregisters(k)
  \/ SourceStep \/ ServeStep
FairSpec == Spec /\ WF_vars(Goroutines)
=============================================================================
