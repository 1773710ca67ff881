----------------------------- MODULE ServerProofs -----------------------------
(***************************************************************************)
(* Theorems about the daemon's server (module Server), for every set of    *)
(* projects, states and connections and every capacity of its queues.      *)
(***************************************************************************)
EXTENDS ServerProperties, SequenceTheorems, TLAPS

Lines == 1 .. MaxEvents
StateEnvs == {StateEnv(p, s) : p \in Projects, s \in RunStates}
LogEnvs == {LogEnv(p, n) : p \in Projects, n \in Lines}
Snapshots == [kind : {"snapshot"}, states : [Projects -> RunStates], lines : [Projects -> Seq(Lines)]]
Events == StateEnvs \cup LogEnvs
CtrlEnvs == StateEnvs \cup Snapshots

Connection == [phase  : {"new", "dialled", "registered"},
               ctrl   : Seq(CtrlEnvs), logq : Seq(LogEnvs), closed : BOOLEAN,
               writer : {"off", "wait", "write", "drop", "done"},
               hand   : EnvSet,
               reader : {"off", "read", "unregister", "done"},
               peer   : BOOLEAN,
               view   : [Projects -> RunStates],
               lines  : [Projects -> Seq(Lines)]]

\* A connection's queues within their caps, and an envelope in the writer's hand while it writes.
InCaps(r) ==
  Len(r.ctrl) <= CtrlCap /\ Len(r.logq) <= LogCap /\ (r.hand = NoEnv <=> r.writer # "write")

SourceTyping ==
  /\ rt \in [Projects -> RunStates] /\ emitted \in 0 .. MaxEvents
  /\ events \in Seq(Events) /\ Len(events) <= EventCap
  /\ ring \in [Projects -> Seq(Lines)] /\ \A p \in Projects : Len(ring[p]) <= RingCap
ControlTyping ==
  /\ client \in Conns \cup {0} /\ accepting \in Conns \cup {0, -1}
  /\ shutdown \in BOOLEAN
  /\ serve \in {"serving", "closing", "drained", "returned"}
  /\ source \in {"loop", "done"}

\* TypeOK, with what the queues may carry.
Typing ==
  SourceTyping /\ ControlTyping /\ conn \in [Conns -> Connection] /\ \A k \in Conns : InCaps(conn[k])

-----------------------------------------------------------------------------
(* Where a connection is.  It carries nothing before the source goroutine  *)
(* has registered it, and only the client is read from while it is open.   *)
Empty(r) == r.hand = NoEnv /\ r.ctrl = <<>> /\ r.logq = <<>> /\ \A p \in Projects : r.lines[p] = <<>>
Idle(r) == r.phase # "registered" => Empty(r) /\ r.reader = "off"

Registration ==
  /\ accepting \in Conns => conn[accepting].phase = "dialled"
  /\ client # 0 => conn[client].phase = "registered"
  /\ \A k \in Conns : Idle(conn[k]) /\ (conn[k].reader = "read" /\ ~conn[k].closed => client = k)

-----------------------------------------------------------------------------
(* The lines a client has, those a snapshot brings it, and those that      *)
(* follow.                                                                 *)
Has(r, x) == \E p \in Projects : \E i \in DOMAIN r.lines[p] : x = r.lines[p][i]
Brings(env, x) ==
  env.kind = "snapshot" /\ \E p \in Projects : \E i \in DOMAIN env.lines[p] : x = env.lines[p][i]
Brought(r, x) == Has(r, x) \/ Brings(r.hand, x) \/ \E i \in DOMAIN r.ctrl : Brings(r.ctrl[i], x)
Follows(r, x) ==
  (r.hand.kind = "log" /\ x = r.hand.line) \/ \E i \in DOMAIN r.logq : x = r.logq[i].line
Shows(r, x) == Brought(r, x) \/ Follows(r, x)

\* The snapshot is the first thing a connection is sent, and the only one of its kind.
SnapshotFirst(r) ==
  /\ \A i \in DOMAIN r.ctrl :
       r.ctrl[i].kind = "snapshot" => i = 1 /\ r.hand = NoEnv /\ \A p \in Projects : r.lines[p] = <<>>
  /\ r.hand.kind = "snapshot" =>
       /\ \A p \in Projects : r.lines[p] = <<>>
       /\ \A i \in DOMAIN r.ctrl : r.ctrl[i].kind # "snapshot"

SnapshotInOrder(env) == env.kind = "snapshot" => \A p \in Projects : Increasing(env.lines[p])

\* Lines in order: what it has or is brought, then what the writer holds, then the queue.
LinesFollow(r) ==
  /\ \A p \in Projects : Increasing(r.lines[p])
  /\ SnapshotInOrder(r.hand) /\ \A i \in DOMAIN r.ctrl : SnapshotInOrder(r.ctrl[i])
  /\ \A x, y \in Lines : Brought(r, x) /\ Follows(r, y) => x < y
  /\ r.hand.kind = "log" => \A i \in DOMAIN r.logq : r.hand.line < r.logq[i].line
  /\ \A i, j \in DOMAIN r.logq : i < j => r.logq[i].line < r.logq[j].line

Ordered(r) == SnapshotFirst(r) /\ LinesFollow(r)

\* A line the source has taken: every line still in the event channel comes after it.
Taken(x, es, n) == x <= n /\ \A i \in DOMAIN es : es[i].kind = "log" => x < es[i].line
ShowsTaken(r, es, n) == \A x \in Lines : Shows(r, x) => Taken(x, es, n)

\* The channel and the rings are in order too.
ChannelInOrder(es, n) ==
  /\ \A i \in DOMAIN es : es[i].kind = "log" => es[i].line <= n
  /\ \A i, j \in DOMAIN es :
       i < j /\ es[i].kind = "log" /\ es[j].kind = "log" => es[i].line < es[j].line
RingInOrder(s, es, n) == Increasing(s) /\ \A i \in DOMAIN s : Taken(s[i], es, n)

InOrder ==
  /\ ChannelInOrder(events, emitted)
  /\ \A p \in Projects : RingInOrder(ring[p], events, emitted)
  /\ \A k \in Conns : Ordered(conn[k]) /\ ShowsTaken(conn[k], events, emitted)

-----------------------------------------------------------------------------
(* The client's mirror.                                                    *)
HandView(r) ==
  CASE r.hand.kind = "state" -> [r.view EXCEPT ![r.hand.id] = r.hand.state]
    [] r.hand.kind = "snapshot" -> r.hand.states
    [] OTHER -> r.view
Mirror(r, store) == \A p \in Projects : CaughtUp(HandView(r), r.ctrl, p, store[p])
InService(k) == client = k /\ ~conn[k].closed /\ conn[k].writer # "drop"
Mirrored == \A k \in Conns : InService(k) => Mirror(conn[k], rt)

ServerInv == Typing /\ Registration /\ InOrder /\ Mirrored

-----------------------------------------------------------------------------
(* Envelopes.                                                              *)
\* An envelope is told apart by its kind, and has what its kind promises.
LEMMA EnvKinds ==
  /\ NoEnv.kind = "none"
  /\ \A e \in StateEnvs : e.kind = "state" /\ e.id \in Projects /\ e.state \in RunStates
  /\ \A e \in LogEnvs : e.kind = "log" /\ e.id \in Projects /\ e.line \in Lines
  /\ \A e \in Snapshots : /\ e.kind = "snapshot" /\ e.states \in [Projects -> RunStates]
                          /\ e.lines \in [Projects -> Seq(Lines)]
<1>1. NoEnv.kind = "none"
  BY DEF NoEnv
<1>2. \A e \in StateEnvs : e.kind = "state" /\ e.id \in Projects /\ e.state \in RunStates
  BY DEF StateEnvs, StateEnv
<1>3. \A e \in LogEnvs : e.kind = "log" /\ e.id \in Projects /\ e.line \in Lines
  BY DEF LogEnvs, LogEnv
<1>4. \A e \in Snapshots : /\ e.kind = "snapshot" /\ e.states \in [Projects -> RunStates]
                           /\ e.lines \in [Projects -> Seq(Lines)]
  BY DEF Snapshots
<1> QED BY <1>1, <1>2, <1>3, <1>4

\* What can be in a queue.
LEMMA EnvParts == EnvSet = {NoEnv} \cup StateEnvs \cup LogEnvs \cup Snapshots
  BY DEF EnvSet, StateEnvs, LogEnvs, Snapshots, Lines

\* The parts of a connection.
LEMMA Parts ==
  ASSUME NEW r \in Connection
  PROVE  /\ r.ctrl \in Seq(CtrlEnvs) /\ r.logq \in Seq(LogEnvs) /\ r.hand \in EnvSet
         /\ r.view \in [Projects -> RunStates] /\ r.lines \in [Projects -> Seq(Lines)]
         /\ r.closed \in BOOLEAN /\ r.peer \in BOOLEAN
         /\ r.writer \in {"off", "wait", "write", "drop", "done"}
         /\ r.reader \in {"off", "read", "unregister", "done"}
         /\ r.phase \in {"new", "dialled", "registered"}
  BY DEF Connection

\* What a log queue and a control queue hold.
LEMMA QueueElements ==
  ASSUME NEW r \in Connection
  PROVE  /\ \A i \in DOMAIN r.ctrl : r.ctrl[i] \in CtrlEnvs /\ r.ctrl[i].kind \in {"state", "snapshot"}
         /\ \A i \in DOMAIN r.logq : r.logq[i] \in LogEnvs /\ r.logq[i].line \in Lines
  BY Parts, EnvKinds DEF CtrlEnvs

-----------------------------------------------------------------------------
(* What the steps of a connection do to the order of its lines.            *)
\* A connection that loses envelopes only: closed, or its write failed.
LEMMA Sheds ==
  ASSUME NEW r \in Connection, NEW s \in Connection, Ordered(r), s.lines = r.lines,
         s.hand \in {r.hand, NoEnv}, s.ctrl \in {r.ctrl, <<>>}, s.logq \in {r.logq, <<>>}
  PROVE  Ordered(s) /\ \A x \in Lines : Shows(s, x) => Shows(r, x)
<1>1. NoEnv.kind = "none" /\ DOMAIN (<<>>) = {}
  BY EnvKinds
<1>2. SnapshotFirst(s)
  BY <1>1 DEF Ordered, SnapshotFirst
<1>3. \A x : Brought(s, x) => Brought(r, x)
  BY <1>1 DEF Brought, Has, Brings
<1>4. \A x : Follows(s, x) => Follows(r, x)
  BY <1>1 DEF Follows
<1>5. LinesFollow(s)
  BY <1>1, <1>3, <1>4 DEF Ordered, LinesFollow, SnapshotInOrder
<1> QED BY <1>2, <1>3, <1>4, <1>5 DEF Ordered, Shows

\* writeLoop takes a control envelope.
LEMMA TakesCtrl ==
  ASSUME NEW r \in Connection, NEW s \in Connection, Ordered(r), s.lines = r.lines,
         r.hand = NoEnv, r.ctrl # <<>>,
         s.hand = Head(r.ctrl), s.ctrl = Tail(r.ctrl), s.logq = r.logq
  PROVE  Ordered(s) /\ \A x \in Lines : Shows(s, x) => Shows(r, x)
<1>1. /\ NoEnv.kind = "none" /\ s.hand = r.ctrl[1] /\ 1 \in DOMAIN r.ctrl
      /\ \A i \in DOMAIN s.ctrl : i + 1 \in DOMAIN r.ctrl /\ i + 1 # 1 /\ s.ctrl[i] = r.ctrl[i + 1]
  BY EnvKinds, Parts
<1>2. s.hand.kind # "log"
  BY <1>1, QueueElements
<1>3. SnapshotFirst(s)
  BY <1>1 DEF Ordered, SnapshotFirst
<1>4. \A x : Brought(s, x) => Brought(r, x)
  BY <1>1 DEF Brought, Has
<1>5. \A x : Follows(s, x) => Follows(r, x)
  BY <1>2 DEF Follows
<1>6. LinesFollow(s)
  BY <1>1, <1>2, <1>4, <1>5 DEF Ordered, LinesFollow
<1> QED BY <1>3, <1>4, <1>5, <1>6 DEF Ordered, Shows

\* writeLoop takes a log line, the control queue being empty.
LEMMA TakesLog ==
  ASSUME NEW r \in Connection, NEW s \in Connection, Ordered(r), s.lines = r.lines,
         r.hand = NoEnv, r.ctrl = <<>>, r.logq # <<>>,
         s.hand = Head(r.logq), s.ctrl = r.ctrl, s.logq = Tail(r.logq)
  PROVE  Ordered(s) /\ \A x \in Lines : Shows(s, x) => Shows(r, x)
<1>1. /\ NoEnv.kind = "none" /\ s.hand = r.logq[1] /\ 1 \in DOMAIN r.logq
      /\ \A i \in DOMAIN s.logq : i + 1 \in DOMAIN r.logq /\ 1 < i + 1 /\ s.logq[i] = r.logq[i + 1]
      /\ \A i, j \in DOMAIN s.logq : i < j => i + 1 < j + 1
      /\ DOMAIN s.ctrl = {}
  BY EnvKinds, Parts
<1>2. s.hand.kind = "log"
  BY <1>1, Parts, EnvKinds
<1>3. SnapshotFirst(s)
  BY <1>1, <1>2 DEF SnapshotFirst
<1>4. \A x : Brought(s, x) => Brought(r, x)
  BY <1>1, <1>2 DEF Brought, Has, Brings
<1>5. \A x : Follows(s, x) => Follows(r, x)
  BY <1>1 DEF Follows
<1>6. LinesFollow(s)
  BY <1>1, <1>2, <1>4, <1>5 DEF Ordered, LinesFollow, SnapshotInOrder
<1> QED BY <1>3, <1>4, <1>5, <1>6 DEF Ordered, Shows

\* A line appended after all the others keeps a sequence increasing.
LEMMA IncreasingAppend ==
  ASSUME NEW s \in Seq(Lines), NEW n \in Lines, Increasing(s), \A i \in DOMAIN s : s[i] < n
  PROVE  /\ Append(s, n) \in Seq(Lines) /\ Increasing(Append(s, n))
         /\ \A i \in DOMAIN Append(s, n) : Append(s, n)[i] = n \/ \E j \in DOMAIN s : Append(s, n)[i] = s[j]
<1>1. /\ Append(s, n) \in Seq(Lines) /\ Len(Append(s, n)) = Len(s) + 1 /\ Len(s) \in Nat
      /\ DOMAIN Append(s, n) = 1 .. Len(s) + 1 /\ DOMAIN s = 1 .. Len(s)
      /\ Append(s, n)[Len(s) + 1] = n /\ \A i \in 1 .. Len(s) : Append(s, n)[i] = s[i]
  OBVIOUS
<1>2. \A i \in DOMAIN Append(s, n) : i = Len(s) + 1 \/ i \in 1 .. Len(s)
  BY <1>1
<1>3. \A i, j \in DOMAIN Append(s, n) : i < j => i \in 1 .. Len(s)
  BY <1>1
<1>4. Increasing(Append(s, n))
  BY <1>1, <1>2, <1>3 DEF Increasing
<1> QED BY <1>1, <1>2, <1>4

\* WriteEnvelope returns: the client has the state, the line or the snapshot.
LEMMA Writes ==
  ASSUME NEW r \in Connection, NEW s \in Connection, Ordered(r),
         s.hand = NoEnv, s.ctrl = r.ctrl, s.logq = r.logq, r.hand # NoEnv,
         r.hand.kind = "state" => s.lines = r.lines,
         r.hand.kind = "log" =>
           s.lines = [r.lines EXCEPT ![r.hand.id] = Append(r.lines[r.hand.id], r.hand.line)],
         r.hand.kind = "snapshot" =>
           s.lines = [p \in Projects |-> r.lines[p] \o r.hand.lines[p]]
  PROVE  Ordered(s) /\ \A x \in Lines : Shows(s, x) => Shows(r, x)
<1>1. NoEnv.kind = "none" /\ r.hand \in StateEnvs \cup LogEnvs \cup Snapshots
  BY EnvKinds, EnvParts, Parts
<1>2. \A i \in DOMAIN r.ctrl : r.ctrl[i].kind # "snapshot"
  BY <1>1, EnvKinds DEF Ordered, SnapshotFirst
<1>3. SnapshotFirst(s)
  BY <1>1, <1>2 DEF SnapshotFirst
<1>4. \A x : Follows(s, x) => \E i \in DOMAIN r.logq : x = r.logq[i].line
  BY <1>1 DEF Follows
<1>5. \A x : Brought(s, x) => Has(s, x)
  BY <1>1, <1>2 DEF Brought, Brings
<1>6. /\ \A p \in Projects : Increasing(s.lines[p])
      /\ \A x \in Lines : Has(s, x) => Brought(r, x) \/ (r.hand.kind = "log" /\ x = r.hand.line)
  <2>1. CASE r.hand.kind = "state"
    BY <2>1 DEF Ordered, LinesFollow, Has, Brought
  <2>2. CASE r.hand.kind = "log"
    <3>1. r.hand.id \in Projects /\ r.hand.line \in Lines
      BY <1>1, <2>2, EnvKinds
    <3> DEFINE old == r.lines[r.hand.id]
    <3>2. \A p \in Projects : s.lines[p] = IF p = r.hand.id THEN Append(old, r.hand.line) ELSE r.lines[p]
      BY <2>2, <3>1, Parts
    <3>3. old \in Seq(Lines) /\ Increasing(old)
      BY <3>1, Parts DEF Ordered, LinesFollow
    <3>4. \A i \in DOMAIN old : old[i] < r.hand.line
      <4>1. \A i \in DOMAIN old : old[i] \in Lines /\ Brought(r, old[i])
        BY <3>1, <3>3 DEF Brought, Has
      <4>2. Follows(r, r.hand.line)
        BY <2>2 DEF Follows
      <4> QED BY <3>1, <4>1, <4>2 DEF Ordered, LinesFollow
    <3>5. /\ Increasing(Append(old, r.hand.line))
          /\ \A i \in DOMAIN Append(old, r.hand.line) :
               Append(old, r.hand.line)[i] = r.hand.line
               \/ \E j \in DOMAIN old : Append(old, r.hand.line)[i] = old[j]
      BY <3>1, <3>3, <3>4, IncreasingAppend
    <3>6. \A p \in Projects : Increasing(s.lines[p])
      BY <3>2, <3>5 DEF Ordered, LinesFollow
    <3>7. ASSUME NEW x \in Lines, Has(s, x) PROVE Brought(r, x) \/ x = r.hand.line
      <4>1. PICK p \in Projects : \E i \in DOMAIN s.lines[p] : x = s.lines[p][i]
        BY <3>7 DEF Has
      <4>2. CASE p = r.hand.id
        <5>1. PICK i \in DOMAIN Append(old, r.hand.line) : x = Append(old, r.hand.line)[i]
          BY <3>2, <4>1, <4>2
        <5>2. x = r.hand.line \/ \E j \in DOMAIN old : x = old[j]
          BY <3>5, <5>1
        <5> QED BY <3>1, <5>2 DEF Brought, Has
      <4>3. CASE p # r.hand.id
        BY <3>2, <4>1, <4>3 DEF Brought, Has
      <4> QED BY <4>2, <4>3
    <3> QED BY <2>2, <3>6, <3>7
  <2>3. CASE r.hand.kind = "snapshot"
    <3>1. r.hand.lines \in [Projects -> Seq(Lines)] /\ \A p \in Projects : r.lines[p] = <<>>
      BY <1>1, <2>3, EnvKinds DEF Ordered, SnapshotFirst
    <3>2. \A p \in Projects : s.lines[p] = r.hand.lines[p]
      <4> SUFFICES ASSUME NEW p \in Projects PROVE s.lines[p] = r.hand.lines[p]
        OBVIOUS
      <4>1. s.lines[p] = <<>> \o r.hand.lines[p]
        BY <2>3, <3>1
      <4> QED BY <3>1, <4>1, ConcatEmptySeq
    <3> QED BY <2>3, <3>2 DEF Ordered, LinesFollow, SnapshotInOrder, Has, Brought, Brings
  <2> QED BY <1>1, <2>1, <2>2, <2>3, EnvKinds
<1>7. \A i \in DOMAIN r.logq : Follows(r, r.logq[i].line) /\ r.logq[i].line \in Lines
  BY QueueElements DEF Follows
<1>8. LinesFollow(s)
  <2>1. \A x, y \in Lines : Brought(s, x) /\ Follows(s, y) => x < y
    BY <1>4, <1>5, <1>6, <1>7 DEF Ordered, LinesFollow
  <2> QED BY <1>1, <1>6, <2>1 DEF Ordered, LinesFollow, SnapshotInOrder
<1>9. \A x \in Lines : Shows(s, x) => Shows(r, x)
  BY <1>4, <1>5, <1>6, <1>7 DEF Shows, Follows
<1> QED BY <1>3, <1>8, <1>9 DEF Ordered

\* A state envelope joins the control queue.
LEMMA QueuesState ==
  ASSUME NEW r \in Connection, NEW s \in Connection, NEW e \in StateEnvs, Ordered(r),
         s.lines = r.lines, s.hand = r.hand, s.logq = r.logq, s.ctrl = Append(r.ctrl, e)
  PROVE  Ordered(s) /\ \A x \in Lines : Shows(s, x) => Shows(r, x)
<1>1. e.kind = "state"
  BY EnvKinds
<1>2. \A i \in DOMAIN s.ctrl : s.ctrl[i] = e \/ (i \in DOMAIN r.ctrl /\ s.ctrl[i] = r.ctrl[i])
  BY Parts DEF CtrlEnvs
<1>3. SnapshotFirst(s)
  BY <1>1, <1>2 DEF Ordered, SnapshotFirst
<1>4. \A x : Brought(s, x) => Brought(r, x)
  BY <1>1, <1>2 DEF Brought, Has, Brings
<1>5. \A x : Follows(s, x) => Follows(r, x)
  BY DEF Follows
<1>6. LinesFollow(s)
  BY <1>1, <1>2, <1>4, <1>5 DEF Ordered, LinesFollow, SnapshotInOrder
<1> QED BY <1>3, <1>4, <1>5, <1>6 DEF Ordered, Shows

\* The snapshot, on a connection that carries nothing yet.
LEMMA QueuesSnapshot ==
  ASSUME NEW r \in Connection, NEW s \in Connection, NEW e \in Snapshots, Empty(r),
         s.lines = r.lines, s.hand = r.hand, s.logq = r.logq, s.ctrl = Append(r.ctrl, e),
         \A p \in Projects : Increasing(e.lines[p])
  PROVE  /\ Ordered(s)
         /\ \A x \in Lines : Shows(s, x) => \E p \in Projects : \E i \in DOMAIN e.lines[p] : x = e.lines[p][i]
<1>1. /\ NoEnv.kind = "none" /\ s.hand = NoEnv /\ s.logq = <<>> /\ DOMAIN s.logq = {}
      /\ \A p \in Projects : s.lines[p] = <<>> /\ DOMAIN s.lines[p] = {}
  BY EnvKinds DEF Empty
<1>2. DOMAIN s.ctrl = {1} /\ s.ctrl[1] = e
  BY DEF Empty
<1>3. SnapshotFirst(s)
  BY <1>1, <1>2 DEF SnapshotFirst
<1>4. \A x : ~Follows(s, x)
  BY <1>1 DEF Follows
<1>5. LinesFollow(s)
  BY <1>1, <1>2, <1>4 DEF LinesFollow, SnapshotInOrder, Increasing
<1>6. \A x \in Lines : Shows(s, x) => Brings(e, x)
  BY <1>1, <1>2, <1>4 DEF Shows, Brought, Brings, Has
<1> QED BY <1>3, <1>5, <1>6 DEF Ordered, Brings

\* A line joins the log queue, whose oldest line may have gone.
LEMMA QueuesLog ==
  ASSUME NEW r \in Connection, NEW s \in Connection, NEW e \in LogEnvs, Ordered(r),
         s.lines = r.lines, s.hand = r.hand, s.ctrl = r.ctrl,
         NEW q \in Seq(LogEnvs), q = r.logq \/ (r.logq # <<>> /\ q = Tail(r.logq)),
         s.logq = Append(q, e), \A x \in Lines : Shows(r, x) => x < e.line
  PROVE  Ordered(s) /\ \A x \in Lines : Shows(s, x) => Shows(r, x) \/ x = e.line
<1>1. e.line \in Lines /\ \A i \in DOMAIN r.logq : r.logq[i].line \in Lines
  BY EnvKinds, QueueElements
<1>2. PICK d \in {0, 1} : \A i \in DOMAIN q : i + d \in DOMAIN r.logq /\ q[i] = r.logq[i + d]
  <2>1. CASE q = r.logq
    BY <2>1
  <2>2. CASE r.logq # <<>> /\ q = Tail(r.logq)
    BY <2>2, Parts
  <2> QED BY <2>1, <2>2
<1>3. /\ DOMAIN s.logq = 1 .. Len(q) + 1 /\ DOMAIN q = 1 .. Len(q) /\ Len(q) \in Nat
      /\ s.logq[Len(q) + 1] = e /\ \A i \in DOMAIN q : s.logq[i] = q[i]
  OBVIOUS
<1>4. \A i \in DOMAIN r.logq : Shows(r, r.logq[i].line)
  BY DEF Shows, Follows
<1>5. \A i \in DOMAIN q : s.logq[i].line < e.line /\ Follows(r, s.logq[i].line)
  BY <1>1, <1>2, <1>3, <1>4 DEF Follows
<1>6. \A x \in Lines : Follows(s, x) => Follows(r, x) \/ x = e.line
  <2> SUFFICES ASSUME NEW x \in Lines, Follows(s, x), x # e.line PROVE Follows(r, x)
    OBVIOUS
  <2>1. CASE \E i \in DOMAIN s.logq : x = s.logq[i].line
    BY <1>3, <1>5, <2>1
  <2>2. CASE r.hand.kind = "log" /\ x = r.hand.line
    BY <2>2 DEF Follows
  <2> QED BY <2>1, <2>2 DEF Follows
<1>7. \A x : Brought(s, x) => Brought(r, x)
  BY DEF Brought, Has
<1>8. LinesFollow(s)
  <2>1. \A x, y \in Lines : Brought(s, x) /\ Follows(s, y) => x < y
    BY <1>6, <1>7 DEF Ordered, LinesFollow, Shows
  <2>2. s.hand.kind = "log" => \A i \in DOMAIN s.logq : s.hand.line < s.logq[i].line
    <3> SUFFICES ASSUME r.hand.kind = "log", NEW i \in DOMAIN s.logq
                 PROVE  r.hand.line < s.logq[i].line
      OBVIOUS
    <3>1. Shows(r, r.hand.line) /\ r.hand.line \in Lines
      <4>1. r.hand \in LogEnvs
        BY EnvKinds, EnvParts, Parts
      <4> QED BY <4>1, EnvKinds DEF Shows, Follows
    <3>2. CASE i = Len(q) + 1
      BY <1>3, <3>1, <3>2
    <3>3. CASE i \in DOMAIN q
      BY <1>2, <1>3, <3>3 DEF Ordered, LinesFollow
    <3> QED BY <1>3, <3>2, <3>3
  <2>3. \A i, j \in DOMAIN s.logq : i < j => s.logq[i].line < s.logq[j].line
    <3> SUFFICES ASSUME NEW i \in DOMAIN s.logq, NEW j \in DOMAIN s.logq, i < j
                 PROVE  s.logq[i].line < s.logq[j].line
      OBVIOUS
    <3>1. i \in DOMAIN q
      BY <1>3
    <3>2. CASE j = Len(q) + 1
      BY <1>3, <1>5, <3>1, <3>2
    <3>3. CASE j \in DOMAIN q
      <4>1. i + d \in DOMAIN r.logq /\ j + d \in DOMAIN r.logq /\ i + d < j + d
        BY <1>2, <1>3, <3>1, <3>3
      <4> QED BY <1>2, <1>3, <3>1, <3>3, <4>1 DEF Ordered, LinesFollow
    <3> QED BY <1>3, <3>2, <3>3
  <2> QED BY <2>1, <2>2, <2>3 DEF Ordered, LinesFollow
<1>9. SnapshotFirst(s)
  BY DEF Ordered, SnapshotFirst
<1> QED BY <1>6, <1>7, <1>8, <1>9 DEF Ordered, Shows

-----------------------------------------------------------------------------
(* What the steps of a connection do to the client's mirror.               *)
\* The last envelope of a control queue tells the last state.
LEMMA CaughtUpAppend ==
  ASSUME NEW v, NEW q \in Seq(CtrlEnvs), NEW e \in CtrlEnvs, NEW p, NEW s, CaughtUp(v, q, p, s)
  PROVE  CaughtUp(v, Append(q, e), p, IF Tells(e, p) THEN Told(e, p) ELSE s)
<1>1. /\ DOMAIN Append(q, e) = 1 .. Len(q) + 1 /\ DOMAIN q = 1 .. Len(q) /\ Len(q) \in Nat
      /\ Append(q, e)[Len(q) + 1] = e /\ \A i \in DOMAIN q : Append(q, e)[i] = q[i]
  OBVIOUS
<1>2. CASE Tells(e, p)
  <2>1. \A j \in DOMAIN Append(q, e) : ~(j > Len(q) + 1)
    BY <1>1
  <2> QED BY <1>1, <1>2, <2>1 DEF CaughtUp
<1>3. CASE ~Tells(e, p)
  <2>1. \A j \in DOMAIN Append(q, e) : j \in DOMAIN q \/ ~Tells(Append(q, e)[j], p)
    BY <1>1, <1>3
  <2>2. CASE v[p] = s /\ \A i \in DOMAIN q : ~Tells(q[i], p)
    BY <1>1, <1>3, <2>1, <2>2 DEF CaughtUp
  <2>3. CASE \E i \in DOMAIN q : /\ Tells(q[i], p) /\ Told(q[i], p) = s
                                 /\ \A j \in DOMAIN q : j > i => ~Tells(q[j], p)
    <3>1. PICK i \in DOMAIN q : /\ Tells(q[i], p) /\ Told(q[i], p) = s
                                /\ \A j \in DOMAIN q : j > i => ~Tells(q[j], p)
      BY <2>3
    <3>2. i \in DOMAIN Append(q, e) /\ Append(q, e)[i] = q[i]
      BY <1>1
    <3>3. \A j \in DOMAIN Append(q, e) : j > i => ~Tells(Append(q, e)[j], p)
      BY <1>1, <2>1, <3>1
    <3> QED BY <1>3, <3>1, <3>2, <3>3 DEF CaughtUp
  <2> QED BY <2>2, <2>3 DEF CaughtUp
<1> QED BY <1>2, <1>3

\* Taking the head of a control queue is catching up with it.
LEMMA CaughtUpTail ==
  ASSUME NEW v, NEW w, NEW q \in Seq(CtrlEnvs), q # <<>>, NEW p, NEW s, CaughtUp(v, q, p, s),
         w[p] = IF Tells(Head(q), p) THEN Told(Head(q), p) ELSE v[p]
  PROVE  CaughtUp(w, Tail(q), p, s)
<1>1. /\ DOMAIN Tail(q) = 1 .. Len(q) - 1 /\ DOMAIN q = 1 .. Len(q) /\ Len(q) \in Nat \ {0}
      /\ Head(q) = q[1] /\ \A i \in DOMAIN Tail(q) : Tail(q)[i] = q[i + 1] /\ i + 1 \in DOMAIN q /\ i + 1 > 1
  OBVIOUS
<1>2. CASE v[p] = s /\ \A i \in DOMAIN q : ~Tells(q[i], p)
  BY <1>1, <1>2 DEF CaughtUp
<1>3. CASE \E i \in DOMAIN q : /\ Tells(q[i], p) /\ Told(q[i], p) = s
                               /\ \A j \in DOMAIN q : j > i => ~Tells(q[j], p)
  <2>1. PICK i \in DOMAIN q : /\ Tells(q[i], p) /\ Told(q[i], p) = s
                              /\ \A j \in DOMAIN q : j > i => ~Tells(q[j], p)
    BY <1>3
  <2>2. CASE i = 1
    <3>1. \A j \in DOMAIN Tail(q) : ~Tells(Tail(q)[j], p)
      BY <1>1, <2>1, <2>2
    <3> QED BY <1>1, <2>1, <2>2, <3>1 DEF CaughtUp
  <2>3. CASE i # 1
    <3>1. i - 1 \in DOMAIN Tail(q) /\ Tail(q)[i - 1] = q[i]
      BY <1>1, <2>3
    <3>2. \A j \in DOMAIN Tail(q) : j > i - 1 => ~Tells(Tail(q)[j], p)
      BY <1>1, <2>1
    <3> QED BY <2>1, <3>1, <3>2 DEF CaughtUp
  <2> QED BY <2>2, <2>3
<1> QED BY <1>2, <1>3 DEF CaughtUp

\* What the envelope in the writer's hand tells of p.
LEMMA HandTells ==
  ASSUME NEW r \in Connection, NEW p \in Projects
  PROVE  HandView(r)[p] = IF Tells(r.hand, p) THEN Told(r.hand, p) ELSE r.view[p]
<1>1. r.hand = NoEnv \/ r.hand \in StateEnvs \/ r.hand \in LogEnvs \/ r.hand \in Snapshots
  BY EnvParts, Parts
<1>2. r.view \in [Projects -> RunStates]
  BY Parts
<1>3. CASE r.hand \in StateEnvs
  <2>1. r.hand.kind = "state" /\ HandView(r) = [r.view EXCEPT ![r.hand.id] = r.hand.state]
    BY <1>3, EnvKinds DEF HandView
  <2> QED BY <1>2, <2>1 DEF Tells, Told
<1>4. CASE r.hand \in Snapshots
  <2>1. r.hand.kind = "snapshot" /\ HandView(r) = r.hand.states
    BY <1>4, EnvKinds DEF HandView
  <2> QED BY <2>1 DEF Tells, Told
<1>5. CASE r.hand = NoEnv \/ r.hand \in LogEnvs
  <2>1. r.hand.kind \in {"none", "log"}
    BY <1>5, EnvKinds
  <2>2. HandView(r) = r.view
    BY <2>1 DEF HandView
  <2> QED BY <2>1, <2>2 DEF Tells
<1> QED BY <1>1, <1>3, <1>4, <1>5

\* writeLoop takes a control envelope: it moves from the queue to the hand.
LEMMA MirrorTakesCtrl ==
  ASSUME NEW r \in Connection, NEW s \in Connection, NEW store, Mirror(r, store),
         r.hand = NoEnv, r.ctrl # <<>>, s.view = r.view, s.hand = Head(r.ctrl), s.ctrl = Tail(r.ctrl)
  PROVE  Mirror(s, store)
<1> SUFFICES ASSUME NEW p \in Projects PROVE CaughtUp(HandView(s), s.ctrl, p, store[p])
  BY DEF Mirror
<1>1. HandView(r)[p] = r.view[p]
  BY HandTells, EnvKinds DEF Tells
<1>2. HandView(s)[p] = IF Tells(Head(r.ctrl), p) THEN Told(Head(r.ctrl), p) ELSE HandView(r)[p]
  BY <1>1, HandTells
<1>3. CaughtUp(HandView(r), r.ctrl, p, store[p]) /\ r.ctrl \in Seq(CtrlEnvs)
  BY Parts DEF Mirror
<1> QED BY <1>2, <1>3, CaughtUpTail

\* Any step that leaves the control queue and what the hand makes of the view.
LEMMA MirrorSame ==
  ASSUME NEW r \in Connection, NEW s \in Connection, NEW store, Mirror(r, store),
         s.ctrl = r.ctrl, \A p \in Projects : HandView(s)[p] = HandView(r)[p]
  PROVE  Mirror(s, store)
  BY DEF Mirror, CaughtUp

\* A state event goes to the store and to the queue.
LEMMA MirrorQueuesState ==
  ASSUME NEW r \in Connection, NEW s \in Connection, NEW e \in StateEnvs,
         rt \in [Projects -> RunStates], Mirror(r, rt),
         s.view = r.view, s.hand = r.hand, s.ctrl = Append(r.ctrl, e)
  PROVE  Mirror(s, [rt EXCEPT ![e.id] = e.state])
<1> SUFFICES ASSUME NEW p \in Projects
             PROVE  CaughtUp(HandView(s), s.ctrl, p, [rt EXCEPT ![e.id] = e.state][p])
  BY DEF Mirror
<1>1. e.kind = "state" /\ e \in CtrlEnvs /\ r.ctrl \in Seq(CtrlEnvs) /\ HandView(s) = HandView(r)
  BY EnvKinds, Parts DEF CtrlEnvs, HandView
<1>2. CaughtUp(HandView(r), r.ctrl, p, rt[p])
  BY DEF Mirror
<1>3. CaughtUp(HandView(s), s.ctrl, p, IF Tells(e, p) THEN Told(e, p) ELSE rt[p])
  BY <1>1, <1>2, CaughtUpAppend
<1>4. [rt EXCEPT ![e.id] = e.state][p] = IF Tells(e, p) THEN Told(e, p) ELSE rt[p]
  BY <1>1 DEF Tells, Told
<1> QED BY <1>3, <1>4

\* The snapshot tells everything.
LEMMA MirrorQueuesSnapshot ==
  ASSUME NEW s, NEW e \in Snapshots, s.ctrl = <<e>>
  PROVE  Mirror(s, e.states)
<1>1. e.kind = "snapshot" /\ DOMAIN s.ctrl = {1} /\ s.ctrl[1] = e
  BY EnvKinds
<1> QED BY <1>1 DEF Mirror, CaughtUp, Tells, Told

-----------------------------------------------------------------------------
(* The helpers of the steps keep a connection a connection.                *)
\* close empties both queues (client_conn.go).
LEMMA ClosedTyped ==
  ASSUME NEW r \in Connection, InCaps(r)
  PROVE  LET s == CloseConn(r) IN
         /\ s \in Connection /\ InCaps(s) /\ s.closed = TRUE
         /\ s.ctrl = <<>> /\ s.logq = <<>> /\ s.hand = r.hand /\ s.lines = r.lines /\ s.view = r.view
         /\ s.phase = r.phase /\ s.reader = r.reader /\ s.writer = r.writer
<1> DEFINE s == CloseConn(r)
<1>1. /\ s.closed = TRUE /\ s.ctrl = <<>> /\ s.logq = <<>> /\ s.hand = r.hand
      /\ s.lines = r.lines /\ s.view = r.view
      /\ s.phase = r.phase /\ s.reader = r.reader /\ s.writer = r.writer
  BY DEF Connection, CloseConn
<1>2. s \in Connection
  <2>1. <<>> \in Seq(CtrlEnvs) /\ <<>> \in Seq(LogEnvs)
    OBVIOUS
  <2> QED BY <2>1 DEF Connection, CloseConn
<1>3. InCaps(s)
  BY <1>1, ServerAssumption DEF InCaps
<1> QED BY <1>1, <1>2, <1>3

\* enqueue of a state event or a snapshot: it is queued, or the connection is or gets closed.
LEMMA EnqueuedCtrl ==
  ASSUME NEW r \in Connection, InCaps(r), NEW e \in CtrlEnvs
  PROVE  LET s == Enqueued(r, e) IN
         \/ r.closed /\ s = r
         \/ s = CloseConn(r) /\ Len(r.ctrl) >= CtrlCap
         \/ /\ ~r.closed /\ s \in Connection /\ InCaps(s) /\ s.ctrl = Append(r.ctrl, e)
            /\ s.logq = r.logq /\ s.hand = r.hand /\ s.lines = r.lines /\ s.view = r.view
            /\ s.phase = r.phase /\ s.reader = r.reader /\ s.writer = r.writer /\ s.closed = r.closed
<1>1. e.kind # "log"
  BY EnvKinds DEF CtrlEnvs
<1>2. CASE r.closed
  BY <1>2 DEF Enqueued
<1>3. CASE ~r.closed /\ Len(r.ctrl) >= CtrlCap
  BY <1>1, <1>3 DEF Enqueued
<1>4. CASE ~r.closed /\ ~(Len(r.ctrl) >= CtrlCap)
  <2>1. Enqueued(r, e) = [r EXCEPT !.ctrl = Append(r.ctrl, e)]
    BY <1>1, <1>4 DEF Enqueued
  <2>2. Append(r.ctrl, e) \in Seq(CtrlEnvs) /\ Len(Append(r.ctrl, e)) = Len(r.ctrl) + 1 /\ Len(r.ctrl) \in Nat
    BY Parts
  <2>3. Len(Append(r.ctrl, e)) <= CtrlCap
    BY <1>4, <2>2, ServerAssumption
  <2> QED BY <1>4, <2>1, <2>2, <2>3 DEF Connection, InCaps
<1> QED BY <1>2, <1>3, <1>4

\* enqueue of a log line: the oldest one makes room for it.
LEMMA EnqueuedLog ==
  ASSUME NEW r \in Connection, InCaps(r), NEW e \in LogEnvs
  PROVE  LET s == Enqueued(r, e) IN
         \/ r.closed /\ s = r
         \/ /\ ~r.closed /\ s \in Connection /\ InCaps(s) /\ s.ctrl = r.ctrl
            /\ \E q \in Seq(LogEnvs) : /\ q = r.logq \/ (r.logq # <<>> /\ q = Tail(r.logq))
                                       /\ s.logq = Append(q, e)
            /\ s.hand = r.hand /\ s.lines = r.lines /\ s.view = r.view
            /\ s.phase = r.phase /\ s.reader = r.reader /\ s.writer = r.writer /\ s.closed = r.closed
<1>1. e.kind = "log"
  BY EnvKinds
<1>2. CASE r.closed
  BY <1>2 DEF Enqueued
<1>3. CASE ~r.closed
  <2> DEFINE q == IF Len(r.logq) >= LogCap THEN Tail(r.logq) ELSE r.logq
  <2>1. Enqueued(r, e) = [r EXCEPT !.logq = Append(q, e)]
    BY <1>1, <1>3 DEF Enqueued
  <2>2. r.logq \in Seq(LogEnvs) /\ Len(r.logq) \in Nat /\ Len(r.logq) <= LogCap /\ LogCap \in Nat \ {0}
    BY Parts, ServerAssumption DEF InCaps
  <2>3. /\ q \in Seq(LogEnvs) /\ Len(q) < LogCap /\ Len(q) \in Nat
        /\ q = r.logq \/ (r.logq # <<>> /\ q = Tail(r.logq))
    <3>1. CASE Len(r.logq) >= LogCap
      BY <2>2, <3>1
    <3>2. CASE ~(Len(r.logq) >= LogCap)
      BY <2>2, <3>2
    <3> QED BY <3>1, <3>2
  <2> HIDE DEF q
  <2>4. Append(q, e) \in Seq(LogEnvs) /\ Len(Append(q, e)) <= LogCap
    BY <2>2, <2>3
  <2>5. [r EXCEPT !.logq = Append(q, e)] \in Connection /\ InCaps([r EXCEPT !.logq = Append(q, e)])
    BY <2>4 DEF Connection, InCaps
  <2> QED BY <1>3, <2>1, <2>3, <2>5 DEF Connection
<1> QED BY <1>2, <1>3

\* WriteEnvelope: what the client makes of the envelope is again a view and its lines.
LEMMA AppliedTyped ==
  ASSUME NEW r \in Connection, r.hand # NoEnv, InCaps(r)
  PROVE  LET s == [Applied(r, r.hand) EXCEPT !.hand = NoEnv, !.writer = "wait"] IN
         /\ s \in Connection /\ InCaps(s) /\ s.hand = NoEnv /\ s.ctrl = r.ctrl /\ s.logq = r.logq
         /\ s.closed = r.closed /\ s.phase = r.phase /\ s.reader = r.reader /\ s.writer = "wait"
         /\ s.view = HandView(r)
         /\ r.hand.kind = "state" => s.lines = r.lines
         /\ r.hand.kind = "log" =>
              s.lines = [r.lines EXCEPT ![r.hand.id] = Append(r.lines[r.hand.id], r.hand.line)]
         /\ r.hand.kind = "snapshot" =>
              s.lines = [p \in Projects |-> r.lines[p] \o r.hand.lines[p]]
<1>1. NoEnv \in EnvSet
  BY EnvParts
<1>2. CASE r.hand \in StateEnvs
  <2>1. r.hand.kind = "state" /\ r.hand.id \in Projects /\ r.hand.state \in RunStates
    BY <1>2, EnvKinds
  <2>2. /\ Applied(r, r.hand) = [r EXCEPT !.view[r.hand.id] = r.hand.state]
        /\ HandView(r) = [r.view EXCEPT ![r.hand.id] = r.hand.state]
    BY <2>1 DEF Applied, HandView
  <2>3. HandView(r) \in [Projects -> RunStates]
    BY <2>1, <2>2, Parts
  <2> DEFINE v == HandView(r)
             s == [[r EXCEPT !.view = v] EXCEPT !.hand = NoEnv, !.writer = "wait"]
  <2>4. [Applied(r, r.hand) EXCEPT !.hand = NoEnv, !.writer = "wait"] = s
    BY <2>2 DEF Connection
  <2> HIDE DEF v
  <2>5. /\ s \in Connection /\ InCaps(s) /\ s.hand = NoEnv /\ s.ctrl = r.ctrl /\ s.logq = r.logq
        /\ s.closed = r.closed /\ s.phase = r.phase /\ s.reader = r.reader /\ s.writer = "wait"
        /\ s.view = v /\ s.lines = r.lines
    BY <1>1, <2>3 DEF Connection, InCaps, v
  <2> QED BY <2>1, <2>4, <2>5 DEF v
<1>3. CASE r.hand \in LogEnvs
  <2>1. r.hand.kind = "log" /\ r.hand.id \in Projects /\ r.hand.line \in Lines
    BY <1>3, EnvKinds
  <2> DEFINE ls == [r.lines EXCEPT ![r.hand.id] = Append(r.lines[r.hand.id], r.hand.line)]
  <2>2. Applied(r, r.hand) = [r EXCEPT !.lines = ls] /\ HandView(r) = r.view
    BY <2>1, Parts DEF Applied, HandView, Connection
  <2>3. ls \in [Projects -> Seq(Lines)]
    BY <2>1, Parts
  <2> HIDE DEF ls
  <2> QED BY <1>1, <2>1, <2>2, <2>3 DEF Connection, InCaps, ls
<1>4. CASE r.hand \in Snapshots
  <2>1. /\ r.hand.kind = "snapshot" /\ r.hand.states \in [Projects -> RunStates]
        /\ r.hand.lines \in [Projects -> Seq(Lines)] /\ r.lines \in [Projects -> Seq(Lines)]
    BY <1>4, EnvKinds, Parts
  <2> DEFINE ls == [p \in Projects |-> r.lines[p] \o r.hand.lines[p]]
  <2>2. Applied(r, r.hand) = [r EXCEPT !.view = r.hand.states, !.lines = ls] /\ HandView(r) = r.hand.states
    BY <2>1 DEF Applied, HandView, Connection
  <2>3. ls \in [Projects -> Seq(Lines)]
    BY <2>1
  <2> HIDE DEF ls
  <2> QED BY <1>1, <2>1, <2>2, <2>3 DEF Connection, InCaps, ls
<1> QED BY <1>2, <1>3, <1>4, EnvParts, Parts

-----------------------------------------------------------------------------
(* The steps.                                                              *)
\* A step that changes one connection and neither the store nor the channel.
LEMMA OneConnection ==
  ASSUME ServerInv, NEW k \in Conns, NEW s \in Connection, conn' = [conn EXCEPT ![k] = s],
         UNCHANGED <<events, emitted, rt, ring>>, ControlTyping',
         client' = client \/ (client' = 0 /\ client = k /\ s.closed),
         accepting' \in Conns => accepting' = accepting \/ (accepting' = k /\ s.phase = "dialled"),
         s.phase = conn[k].phase \/ (conn[k].phase # "registered" /\ accepting # k),
         InCaps(s), Idle(s), Ordered(s), \A x \in Lines : Shows(s, x) => Shows(conn[k], x),
         s.reader = "read" /\ ~s.closed => conn[k].reader = "read" /\ ~conn[k].closed,
         client = k /\ ~s.closed /\ s.writer # "drop" => Mirror(s, rt)
  PROVE  ServerInv'
<1>1. /\ conn \in [Conns -> Connection] /\ conn'[k] = s
      /\ \A j \in Conns : j # k => conn'[j] = conn[j]
  BY DEF ServerInv, Typing
<1>2. Typing'
  <2>1. SourceTyping'
    BY DEF ServerInv, Typing, SourceTyping
  <2>2. conn' \in [Conns -> Connection] /\ \A j \in Conns : InCaps(conn'[j])
    BY <1>1 DEF ServerInv, Typing
  <2> QED BY <2>1, <2>2 DEF Typing
<1>3. Registration'
  <2>1. accepting' \in Conns => conn'[accepting'].phase = "dialled"
    BY <1>1 DEF ServerInv, Registration
  <2>2. client' # 0 => conn'[client'].phase = "registered"
    BY <1>1 DEF ServerInv, Registration, Typing, ControlTyping
  <2>3. \A j \in Conns : Idle(conn'[j])
    BY <1>1 DEF ServerInv, Registration
  <2>4. \A j \in Conns : conn'[j].reader = "read" /\ ~conn'[j].closed => client' = j
    BY <1>1 DEF ServerInv, Registration
  <2> QED BY <2>1, <2>2, <2>3, <2>4 DEF Registration
<1>4. InOrder'
  <2>1. ChannelInOrder(events', emitted') /\ \A p \in Projects : RingInOrder(ring'[p], events', emitted')
    BY DEF ServerInv, InOrder
  <2>2. \A j \in Conns : Ordered(conn'[j]) /\ ShowsTaken(conn'[j], events', emitted')
    BY <1>1 DEF ServerInv, InOrder, ShowsTaken
  <2> QED BY <2>1, <2>2 DEF InOrder
<1>5. Mirrored'
  <2> SUFFICES ASSUME NEW j \in Conns, InService(j)' PROVE Mirror(conn'[j], rt)
    BY DEF Mirrored
  <2>1. client = j /\ ~conn'[j].closed /\ conn'[j].writer # "drop"
    BY <1>1, ServerAssumption DEF InService
  <2> QED BY <1>1, <2>1 DEF ServerInv, Mirrored, InService
<1> QED BY <1>2, <1>3, <1>4, <1>5 DEF ServerInv

\* A step that changes neither a connection, nor the store, nor the channel.
LEMMA NoConnection ==
  ASSUME ServerInv, UNCHANGED <<events, emitted, rt, ring, conn, client, accepting>>, ControlTyping'
  PROVE  ServerInv'
<1>1. Typing' /\ Registration'
  BY DEF ServerInv, Typing, SourceTyping, Registration
<1>2. InOrder' /\ Mirrored'
  BY DEF ServerInv, InOrder, Mirrored, InService
<1> QED BY <1>1, <1>2 DEF ServerInv

\* A connection of the invariant.
LEMMA OneOfThem ==
  ASSUME ServerInv, NEW k \in Conns
  PROVE  /\ conn[k] \in Connection /\ InCaps(conn[k]) /\ Idle(conn[k]) /\ Ordered(conn[k])
         /\ client = k /\ ~conn[k].closed /\ conn[k].writer # "drop" => Mirror(conn[k], rt)
  BY DEF ServerInv, Typing, Registration, InOrder, Mirrored, InService

\* The writer goroutine: it takes, writes, fails, ends.
LEMMA WriterTakesKeeps ==
  ASSUME ServerInv, NEW k \in Conns, WriterTakes(k)
  PROVE  ServerInv'
<1> DEFINE r == conn[k]
<1>1. r \in Connection /\ InCaps(r) /\ Idle(r) /\ Ordered(r) /\ r.hand = NoEnv
      /\ (client = k /\ ~r.closed /\ r.writer # "drop" => Mirror(r, rt))
      /\ r.writer = "wait" /\ ~r.closed
  BY OneOfThem DEF WriterTakes, InCaps
<1>2. /\ UNCHANGED <<events, emitted, rt, ring, client, accepting>> /\ ControlTyping'
  BY DEF WriterTakes, srcVars, ServerInv, Typing, ControlTyping
<1>3. NoEnv \notin CtrlEnvs /\ NoEnv \notin LogEnvs /\ CtrlEnvs \subseteq EnvSet /\ LogEnvs \subseteq EnvSet
  BY EnvKinds, EnvParts DEF CtrlEnvs
<1>4. CASE r.ctrl # <<>> /\ conn' = [conn EXCEPT ![k].hand = Head(conn[k].ctrl),
                                                 ![k].ctrl = Tail(@), ![k].writer = "write"]
  <2> DEFINE s == [r EXCEPT !.hand = Head(r.ctrl), !.ctrl = Tail(r.ctrl), !.writer = "write"]
  <2>1. conn' = [conn EXCEPT ![k] = s]
    BY <1>4 DEF ServerInv, Typing
  <2>2. /\ Head(r.ctrl) \in CtrlEnvs /\ Tail(r.ctrl) \in Seq(CtrlEnvs)
        /\ Len(Tail(r.ctrl)) = Len(r.ctrl) - 1 /\ Len(r.ctrl) \in Nat
    BY <1>1, <1>4, Parts
  <2>3. s \in Connection /\ InCaps(s)
    <3>1. s \in Connection
      BY <1>1, <1>3, <2>2 DEF Connection
    <3>2. Len(Tail(r.ctrl)) <= CtrlCap
      BY <1>1, <2>2, ServerAssumption DEF InCaps
    <3> QED BY <1>1, <1>3, <2>2, <3>1, <3>2 DEF InCaps, Connection
  <2>4. /\ s.view = r.view /\ s.lines = r.lines /\ s.logq = r.logq /\ s.phase = r.phase
        /\ s.reader = r.reader /\ s.closed = r.closed /\ s.hand = Head(r.ctrl) /\ s.ctrl = Tail(r.ctrl)
    BY <1>1 DEF Connection
  <2>5. r.phase = "registered"
    BY <1>1, <1>4 DEF Idle, Empty
  <2> HIDE DEF s, r
  <2>6. Ordered(s) /\ \A x \in Lines : Shows(s, x) => Shows(r, x)
    BY <1>1, <1>4, <2>3, <2>4, TakesCtrl
  <2>7. client = k => Mirror(s, rt)
    BY <1>1, <1>4, <2>3, <2>4, MirrorTakesCtrl
  <2> USE DEF r
  <2> QED BY <1>1, <1>2, <2>1, <2>3, <2>4, <2>5, <2>6, <2>7, OneConnection DEF Idle
<1>5. CASE r.ctrl = <<>> /\ r.logq # <<>>
           /\ conn' = [conn EXCEPT ![k].hand = Head(conn[k].logq),
                                   ![k].logq = Tail(@), ![k].writer = "write"]
  <2> DEFINE s == [r EXCEPT !.hand = Head(r.logq), !.logq = Tail(r.logq), !.writer = "write"]
  <2>1. conn' = [conn EXCEPT ![k] = s]
    BY <1>5 DEF ServerInv, Typing
  <2>2. /\ Head(r.logq) \in LogEnvs /\ Tail(r.logq) \in Seq(LogEnvs)
        /\ Len(Tail(r.logq)) = Len(r.logq) - 1 /\ Len(r.logq) \in Nat
    BY <1>1, <1>5, Parts
  <2>3. s \in Connection /\ InCaps(s)
    <3>1. s \in Connection
      BY <1>1, <1>3, <2>2 DEF Connection
    <3>2. Len(Tail(r.logq)) <= LogCap
      BY <1>1, <2>2, ServerAssumption DEF InCaps
    <3> QED BY <1>1, <1>3, <2>2, <3>1, <3>2 DEF InCaps, Connection
  <2>4. /\ s.view = r.view /\ s.lines = r.lines /\ s.ctrl = r.ctrl /\ s.phase = r.phase
        /\ s.reader = r.reader /\ s.closed = r.closed /\ s.hand = Head(r.logq) /\ s.logq = Tail(r.logq)
    BY <1>1 DEF Connection
  <2>5. r.phase = "registered"
    BY <1>1, <1>5 DEF Idle, Empty
  <2>6. HandView(s) = HandView(r)
    BY <1>1, <2>2, <2>4, EnvKinds DEF HandView
  <2> HIDE DEF s, r
  <2>7. Ordered(s) /\ \A x \in Lines : Shows(s, x) => Shows(r, x)
    BY <1>1, <1>5, <2>3, <2>4, TakesLog
  <2>8. client = k => Mirror(s, rt)
    BY <1>1, <2>3, <2>4, <2>6, MirrorSame
  <2> USE DEF r
  <2> QED BY <1>1, <1>2, <2>1, <2>3, <2>4, <2>5, <2>7, <2>8, OneConnection DEF Idle
<1> QED BY <1>4, <1>5 DEF WriterTakes

\* A write moves one envelope from the writer's hand to what the client has.
LEMMA WriterWritesKeeps ==
  ASSUME ServerInv, NEW k \in Conns, WriterWrites(k)
  PROVE  ServerInv'
<1> DEFINE r == conn[k]
           s == [Applied(r, r.hand) EXCEPT !.hand = NoEnv, !.writer = "wait"]
<1>1. r \in Connection /\ InCaps(r) /\ Idle(r) /\ Ordered(r) /\ r.hand # NoEnv
      /\ (client = k /\ ~r.closed /\ r.writer # "drop" => Mirror(r, rt))
      /\ r.writer = "write" /\ ~r.closed
  BY OneOfThem DEF WriterWrites, InCaps
<1>2. UNCHANGED <<events, emitted, rt, ring, client, accepting>> /\ ControlTyping'
  BY DEF WriterWrites, srcVars, ServerInv, Typing, ControlTyping
<1>3. conn' = [conn EXCEPT ![k] = s]
  BY DEF WriterWrites, ServerInv, Typing
<1>4. /\ s \in Connection /\ InCaps(s) /\ s.hand = NoEnv /\ s.ctrl = r.ctrl /\ s.logq = r.logq
      /\ s.closed = r.closed /\ s.phase = r.phase /\ s.reader = r.reader /\ s.writer = "wait"
      /\ s.view = HandView(r)
  BY <1>1, AppliedTyped
<1>5. /\ r.hand.kind = "state" => s.lines = r.lines
      /\ r.hand.kind = "log" =>
           s.lines = [r.lines EXCEPT ![r.hand.id] = Append(r.lines[r.hand.id], r.hand.line)]
      /\ r.hand.kind = "snapshot" =>
           s.lines = [p \in Projects |-> r.lines[p] \o r.hand.lines[p]]
  BY <1>1, AppliedTyped
<1>6. r.phase = "registered"
  BY <1>1 DEF Idle, Empty
<1>7. HandView(s) = HandView(r)
  BY <1>4, EnvKinds DEF HandView
<1> HIDE DEF s, r
<1>8. Ordered(s) /\ \A x \in Lines : Shows(s, x) => Shows(r, x)
  BY <1>1, <1>4, <1>5, Writes
<1>9. client = k => Mirror(s, rt)
  BY <1>1, <1>4, <1>7, MirrorSame
<1> USE DEF r
<1> QED BY <1>1, <1>2, <1>3, <1>4, <1>6, <1>8, <1>9, OneConnection DEF Idle

\* A step after which the connection carries less, or the same.
LEMMA ShedsStep ==
  ASSUME ServerInv, NEW k \in Conns, NEW s \in Connection, conn' = [conn EXCEPT ![k] = s],
         UNCHANGED <<events, emitted, rt, ring>>, ControlTyping',
         client' = client \/ (client' = 0 /\ client = k /\ s.closed),
         accepting' \in Conns => accepting' = accepting \/ (accepting' = k /\ s.phase = "dialled"),
         s.phase = conn[k].phase \/ (conn[k].phase = "new" /\ s.phase = "dialled" /\ accepting # k),
         s.lines = conn[k].lines, s.view = conn[k].view, s.hand \in {conn[k].hand, NoEnv},
         s.ctrl \in {conn[k].ctrl, <<>>}, s.logq \in {conn[k].logq, <<>>},
         s.hand = NoEnv <=> s.writer # "write",
         s.reader = conn[k].reader \/ (s.reader # "read" /\ conn[k].reader # "off"),
         s.closed \/ ~conn[k].closed,
         s.closed \/ s.writer = "drop" \/ (s.ctrl = conn[k].ctrl /\ s.hand = conn[k].hand /\ conn[k].writer # "drop")
  PROVE  ServerInv'
<1> DEFINE r == conn[k]
<1>1. r \in Connection /\ InCaps(r) /\ Idle(r) /\ Ordered(r)
      /\ (client = k /\ ~r.closed /\ r.writer # "drop" => Mirror(r, rt))
  BY OneOfThem
<1>2. InCaps(s)
  BY <1>1, ServerAssumption DEF InCaps
<1>3. Idle(s)
  BY <1>1 DEF Idle, Empty
<1>4. Ordered(s) /\ \A x \in Lines : Shows(s, x) => Shows(r, x)
  BY <1>1, Sheds
<1>5. client = k /\ ~s.closed /\ s.writer # "drop" => Mirror(s, rt)
  <2> SUFFICES ASSUME client = k, ~s.closed, s.writer # "drop" PROVE Mirror(s, rt)
    OBVIOUS
  <2>1. Mirror(r, rt) /\ s.ctrl = r.ctrl /\ s.hand = r.hand
    BY <1>1
  <2> QED BY <1>1, <2>1, MirrorSame DEF HandView
<1>6. s.reader = "read" /\ ~s.closed => r.reader = "read" /\ ~r.closed
  OBVIOUS
<1> QED BY <1>2, <1>3, <1>4, <1>5, <1>6, OneConnection

\* dropClient or unregisterClient has been heard, or gives up: the connection is closed and
\* the goroutine that asked is done.
LEMMA DroppedStep ==
  ASSUME ServerInv, NEW k \in Conns,
         \/ /\ conn[k].writer = "drop"
            /\ conn' = [conn EXCEPT ![k] = [CloseConn(@) EXCEPT !.writer = "done"]]
         \/ /\ conn[k].reader = "unregister"
            /\ conn' = [conn EXCEPT ![k] = [CloseConn(@) EXCEPT !.reader = "done"]],
         UNCHANGED <<events, emitted, rt, ring, accepting>>, ControlTyping',
         client' = client \/ (client' = 0 /\ client = k)
  PROVE  ServerInv'
<1> DEFINE r == conn[k]
           c == CloseConn(r)
<1>1. r \in Connection /\ InCaps(r) /\ conn \in [Conns -> Connection]
  BY OneOfThem DEF ServerInv, Typing
<1>2. /\ c \in Connection /\ InCaps(c) /\ c.closed = TRUE
      /\ c.ctrl = <<>> /\ c.logq = <<>> /\ c.hand = r.hand /\ c.lines = r.lines /\ c.view = r.view
      /\ c.phase = r.phase /\ c.reader = r.reader /\ c.writer = r.writer
  BY <1>1, ClosedTyped
<1>3. CASE r.writer = "drop" /\ conn' = [conn EXCEPT ![k] = [CloseConn(@) EXCEPT !.writer = "done"]]
  <2> DEFINE s == [c EXCEPT !.writer = "done"]
  <2>1. conn' = [conn EXCEPT ![k] = s]
    BY <1>1, <1>3
  <2>2. /\ s \in Connection /\ s.closed = TRUE
        /\ s.ctrl = <<>> /\ s.logq = <<>> /\ s.hand = r.hand /\ s.lines = r.lines /\ s.view = r.view
        /\ s.phase = r.phase /\ s.reader = r.reader /\ s.writer = "done"
    BY <1>2 DEF Connection
  <2>3. r.hand = NoEnv
    BY <1>1, <1>3 DEF InCaps
  <2> HIDE DEF s
  <2> QED BY <2>1, <2>2, <2>3, ShedsStep
<1>4. CASE r.reader = "unregister" /\ conn' = [conn EXCEPT ![k] = [CloseConn(@) EXCEPT !.reader = "done"]]
  <2> DEFINE s == [c EXCEPT !.reader = "done"]
  <2>1. conn' = [conn EXCEPT ![k] = s]
    BY <1>1, <1>4
  <2>2. /\ s \in Connection /\ s.closed = TRUE
        /\ s.ctrl = <<>> /\ s.logq = <<>> /\ s.hand = r.hand /\ s.lines = r.lines /\ s.view = r.view
        /\ s.phase = r.phase /\ s.reader = "done" /\ s.writer = r.writer
    BY <1>2 DEF Connection
  <2>3. s.hand = NoEnv <=> s.writer # "write"
    BY <1>1, <2>2 DEF InCaps
  <2> HIDE DEF s
  <2> QED BY <1>4, <2>1, <2>2, <2>3, ShedsStep
<1> QED BY <1>3, <1>4

\* The writer fails or ends, a goroutine gives up at shutdown, the reader sees the end, the
\* peer goes.
LEMMA ConnectionEnds ==
  ASSUME ServerInv, NEW k \in Conns,
         WriterFails(k) \/ WriterEnds(k) \/ DropAtShutdown(k) \/ ReaderEnds(k) \/ PeerQuits(k)
  PROVE  ServerInv'
<1> DEFINE r == conn[k]
<1>1. r \in Connection /\ InCaps(r) /\ conn \in [Conns -> Connection]
  BY OneOfThem DEF ServerInv, Typing
<1>2. UNCHANGED <<events, emitted, rt, ring, client, accepting>> /\ ControlTyping'
  BY DEF WriterFails, WriterEnds, DropAtShutdown, ReaderEnds, PeerQuits, srcVars,
     ServerInv, Typing, ControlTyping
<1>3. NoEnv \in EnvSet
  BY EnvParts
<1>4. CASE WriterFails(k)
  <2> DEFINE s == [r EXCEPT !.hand = NoEnv, !.writer = "drop"]
  <2>1. conn' = [conn EXCEPT ![k] = s]
    BY <1>1, <1>4 DEF WriterFails
  <2>2. /\ s \in Connection /\ s.phase = r.phase /\ s.lines = r.lines /\ s.view = r.view
        /\ s.ctrl = r.ctrl /\ s.logq = r.logq /\ s.hand = NoEnv /\ s.writer = "drop"
        /\ s.reader = r.reader /\ s.closed = r.closed
    BY <1>1, <1>3 DEF Connection
  <2> HIDE DEF s
  <2> QED BY <1>2, <2>1, <2>2, ShedsStep
<1>5. CASE WriterEnds(k)
  <2> DEFINE s == [r EXCEPT !.writer = "done"]
  <2>1. conn' = [conn EXCEPT ![k] = s]
    BY <1>1, <1>5 DEF WriterEnds
  <2>2. /\ s \in Connection /\ s.phase = r.phase /\ s.lines = r.lines /\ s.view = r.view
        /\ s.ctrl = r.ctrl /\ s.logq = r.logq /\ s.hand = r.hand /\ s.writer = "done"
        /\ s.reader = r.reader /\ s.closed = r.closed
    BY <1>1 DEF Connection
  <2>3. r.hand = NoEnv /\ r.closed
    BY <1>1, <1>5 DEF WriterEnds, InCaps
  <2> HIDE DEF s
  <2> QED BY <1>2, <2>1, <2>2, <2>3, ShedsStep
<1>6. CASE DropAtShutdown(k)
  BY <1>2, <1>6, DroppedStep DEF DropAtShutdown
<1>7. CASE ReaderEnds(k)
  <2> DEFINE s == [r EXCEPT !.reader = "unregister"]
  <2>1. conn' = [conn EXCEPT ![k] = s]
    BY <1>1, <1>7 DEF ReaderEnds
  <2>2. /\ s \in Connection /\ s.phase = r.phase /\ s.lines = r.lines /\ s.view = r.view
        /\ s.ctrl = r.ctrl /\ s.logq = r.logq /\ s.hand = r.hand /\ s.writer = r.writer
        /\ s.reader = "unregister" /\ s.closed = r.closed
    BY <1>1 DEF Connection
  <2>3. r.reader = "read" /\ (s.hand = NoEnv <=> s.writer # "write")
    BY <1>1, <1>7, <2>2 DEF ReaderEnds, InCaps
  <2> HIDE DEF s
  <2> QED BY <1>2, <2>1, <2>2, <2>3, ShedsStep
<1>8. CASE PeerQuits(k)
  <2> DEFINE s == [r EXCEPT !.peer = FALSE]
  <2>1. conn' = [conn EXCEPT ![k] = s]
    BY <1>1, <1>8 DEF PeerQuits
  <2>2. /\ s \in Connection /\ s.phase = r.phase /\ s.lines = r.lines /\ s.view = r.view
        /\ s.ctrl = r.ctrl /\ s.logq = r.logq /\ s.hand = r.hand /\ s.writer = r.writer
        /\ s.reader = r.reader /\ s.closed = r.closed
    BY <1>1 DEF Connection
  <2>3. s.hand = NoEnv <=> s.writer # "write"
    BY <1>1, <2>2 DEF InCaps
  <2> HIDE DEF s
  <2> QED BY <1>2, <2>1, <2>2, <2>3, ShedsStep
<1> QED BY <1>4, <1>5, <1>6, <1>7, <1>8

\* acceptLoop: a connection is dialled, or closed at shutdown before anybody registers it.
LEMMA AcceptKeeps ==
  ASSUME ServerInv, NEW k \in Conns, Accept(k) \/ AcceptAtShutdown(k)
  PROVE  ServerInv'
<1> DEFINE r == conn[k]
<1>1. /\ r \in Connection /\ InCaps(r) /\ Idle(r) /\ Ordered(r) /\ conn \in [Conns -> Connection]
      /\ k # 0 /\ -1 \notin Conns /\ 0 \notin Conns
      /\ client = k => r.phase = "registered"
      /\ accepting = k => r.phase = "dialled"
  BY OneOfThem, ServerAssumption DEF ServerInv, Typing, Registration
<1>2. CASE Accept(k)
  <2> DEFINE s == [r EXCEPT !.phase = "dialled", !.writer = "wait"]
  <2>1. /\ conn' = [conn EXCEPT ![k] = s] /\ r.phase = "new" /\ accepting = 0 /\ accepting' = k
        /\ UNCHANGED <<events, emitted, rt, ring, client>> /\ ControlTyping'
    BY <1>1, <1>2 DEF Accept, srcVars, ServerInv, Typing, ControlTyping
  <2>2. /\ s \in Connection /\ s.phase = "dialled" /\ s.lines = r.lines /\ s.view = r.view
        /\ s.ctrl = r.ctrl /\ s.logq = r.logq /\ s.hand = r.hand /\ s.writer = "wait"
        /\ s.reader = r.reader /\ s.closed = r.closed
    BY <1>1 DEF Connection
  <2>3. Empty(r) /\ r.reader = "off"
    BY <1>1, <2>1 DEF Idle
  <2> HIDE DEF s
  <2>4. InCaps(s) /\ Idle(s)
    BY <1>1, <2>2, <2>3 DEF InCaps, Idle, Empty
  <2>5. Ordered(s) /\ \A x \in Lines : Shows(s, x) => Shows(r, x)
    BY <1>1, <2>2, Sheds
  <2> QED BY <1>1, <2>1, <2>2, <2>3, <2>4, <2>5, OneConnection
<1>3. CASE AcceptAtShutdown(k)
  <2> DEFINE s == CloseConn(r)
  <2>1. /\ conn' = [conn EXCEPT ![k] = s] /\ accepting' = -1
        /\ UNCHANGED <<events, emitted, rt, ring, client>> /\ ControlTyping'
    BY <1>1, <1>3 DEF AcceptAtShutdown, srcVars, ServerInv, Typing, ControlTyping
  <2>2. /\ s \in Connection /\ InCaps(s) /\ s.closed = TRUE
        /\ s.ctrl = <<>> /\ s.logq = <<>> /\ s.hand = r.hand /\ s.lines = r.lines /\ s.view = r.view
        /\ s.phase = r.phase /\ s.reader = r.reader /\ s.writer = r.writer
    BY <1>1, ClosedTyped
  <2> HIDE DEF s
  <2> QED BY <1>1, <2>1, <2>2, ShedsStep DEF InCaps
<1> QED BY <1>2, <1>3

\* unregisterClient and dropClient, taken by the source goroutine.
LEMMA SourceUnregistersKeeps ==
  ASSUME ServerInv, NEW k \in Conns, SourceUnregisters(k)
  PROVE  ServerInv'
<1>1. /\ UNCHANGED <<events, emitted, rt, ring, accepting>>
      /\ client' = client \/ (client' = 0 /\ client = k)
      /\ ControlTyping'
  BY DEF SourceUnregisters, srcVars, ServerInv, Typing, ControlTyping
<1> QED BY <1>1, DroppedStep DEF SourceUnregisters

\* The source goroutine ends and closes the client it has.
LEMMA SourceEndsKeeps ==
  ASSUME ServerInv, SourceEnds
  PROVE  ServerInv'
<1>1. /\ UNCHANGED <<events, emitted, rt, ring, accepting>> /\ client' = 0
      /\ ControlTyping' /\ client \in Conns \cup {0} /\ conn \in [Conns -> Connection]
      /\ -1 \notin Conns /\ 0 \notin Conns
  BY ServerAssumption DEF SourceEnds, ServerInv, Typing, ControlTyping
<1>2. CASE client = 0
  <2>1. conn' = conn /\ client' = client
    BY <1>1, <1>2 DEF SourceEnds
  <2> QED BY <1>1, <2>1, NoConnection
<1>3. CASE client \in Conns
  <2> DEFINE s == CloseConn(conn[client])
  <2>1. conn' = [conn EXCEPT ![client] = s]
    BY <1>1, <1>3 DEF SourceEnds
  <2>2. conn[client] \in Connection /\ InCaps(conn[client])
    BY <1>3, OneOfThem
  <2>3. /\ s \in Connection /\ InCaps(s) /\ s.closed = TRUE
        /\ s.ctrl = <<>> /\ s.logq = <<>> /\ s.hand = conn[client].hand
        /\ s.lines = conn[client].lines /\ s.view = conn[client].view
        /\ s.phase = conn[client].phase /\ s.reader = conn[client].reader /\ s.writer = conn[client].writer
    BY <2>2, ClosedTyped
  <2> HIDE DEF s
  <2> QED BY <1>1, <1>3, <2>1, <2>2, <2>3, ShedsStep DEF InCaps
<1> QED BY <1>1, <1>2, <1>3

\* ListenAndServe's own steps and the request to shut down.
LEMMA ServeKeeps ==
  ASSUME ServerInv, ServeStep \/ RequestShutdown
  PROVE  ServerInv'
<1>1. UNCHANGED <<events, emitted, rt, ring, conn, client, accepting>> /\ ControlTyping'
  BY DEF ServeStep, CloseListener, ManagerClosed, ServeReturns, RequestShutdown, srcVars,
     ServerInv, Typing, ControlTyping
<1> QED BY <1>1, NoConnection

\* A line is taken as before when the channel has lost its head, or got a later line.
LEMMA TakenLater ==
  ASSUME NEW es \in Seq(Events), NEW n \in Nat, NEW e \in Events,
         e.kind = "log" => e.line = n + 1,
         NEW fs, fs = es \/ fs = Append(es, e), NEW x \in Lines, Taken(x, es, n)
  PROVE  Taken(x, fs, n + 1)
<1>1. x <= n + 1 /\ x < n + 1 /\ x <= n
  BY DEF Taken, Lines
<1>2. CASE fs = es
  BY <1>1, <1>2 DEF Taken
<1>3. CASE fs = Append(es, e)
  <2>1. \A i \in DOMAIN fs : fs[i] = e \/ (i \in DOMAIN es /\ fs[i] = es[i])
    BY <1>3
  <2> QED BY <1>1, <2>1 DEF Taken
<1> QED BY <1>2, <1>3

\* A child emits: the channel stays in order, or is full and drops the event.
LEMMA EmitKeeps ==
  ASSUME ServerInv, NEW e \in Events, e.kind = "log" => e.line = emitted + 1, Emit(e)
  PROVE  ServerInv'
<1>1. /\ events \in Seq(Events) /\ emitted \in Nat /\ emitted' = emitted + 1 /\ emitted' \in 0 .. MaxEvents
      /\ Len(events) <= EventCap /\ Len(events) \in Nat
      /\ UNCHANGED <<rt, ring, client, accepting, conn, shutdown, serve, source>>
  BY ServerAssumption DEF Emit, ServerInv, Typing, SourceTyping
<1>2. /\ events' = events \/ events' = Append(events, e)
      /\ events' \in Seq(Events) /\ Len(events') <= EventCap
  BY <1>1, ServerAssumption DEF Emit
<1>3. Typing' /\ Registration'
  BY <1>1, <1>2 DEF ServerInv, Typing, SourceTyping, ControlTyping, Registration
<1>4. \A x \in Lines : Taken(x, events, emitted) => Taken(x, events', emitted')
  BY <1>1, <1>2, TakenLater
<1>5. InOrder'
  <2>1. ChannelInOrder(events', emitted')
    <3>1. CASE events' = events
      <4>1. \A i \in DOMAIN events : events[i].kind = "log" => events[i].line \in Lines
        BY <1>1, EnvKinds DEF Events
      <4> QED BY <1>1, <3>1, <4>1 DEF ServerInv, InOrder, ChannelInOrder, Lines
    <3>2. CASE events' = Append(events, e)
      <4>1. /\ DOMAIN events' = 1 .. Len(events) + 1 /\ DOMAIN events = 1 .. Len(events)
            /\ events'[Len(events) + 1] = e /\ \A i \in DOMAIN events : events'[i] = events[i]
        BY <1>1, <3>2
      <4>2. \A i \in DOMAIN events : events[i].kind = "log" => events[i].line \in Lines /\ events[i].line <= emitted
        BY <1>1, EnvKinds DEF Events, ServerInv, InOrder, ChannelInOrder
      <4>3. \A i \in DOMAIN events' : events'[i].kind = "log" => events'[i].line <= emitted'
        BY <1>1, <4>1, <4>2 DEF Lines
      <4>4. ASSUME NEW i \in DOMAIN events', NEW j \in DOMAIN events', i < j,
                   events'[i].kind = "log", events'[j].kind = "log"
            PROVE  events'[i].line < events'[j].line
        <5>1. i \in DOMAIN events
          BY <1>1, <4>1, <4>4
        <5>2. CASE j = Len(events) + 1
          BY <1>1, <4>1, <4>2, <4>4, <5>1, <5>2 DEF Lines
        <5>3. CASE j \in DOMAIN events
          BY <4>1, <4>4, <5>1, <5>3 DEF ServerInv, InOrder, ChannelInOrder
        <5> QED BY <4>1, <5>2, <5>3
      <4> QED BY <4>3, <4>4 DEF ChannelInOrder
    <3> QED BY <1>2, <3>1, <3>2
  <2>2. \A p \in Projects : RingInOrder(ring'[p], events', emitted')
    <3> SUFFICES ASSUME NEW p \in Projects PROVE RingInOrder(ring[p], events', emitted')
      BY <1>1
    <3>1. \A i \in DOMAIN ring[p] : ring[p][i] \in Lines
      BY DEF ServerInv, Typing, SourceTyping
    <3> QED BY <1>4, <3>1 DEF ServerInv, InOrder, RingInOrder
  <2>3. \A k \in Conns : Ordered(conn'[k]) /\ ShowsTaken(conn'[k], events', emitted')
    BY <1>1, <1>4 DEF ServerInv, InOrder, ShowsTaken
  <2> QED BY <2>1, <2>2, <2>3 DEF InOrder
<1>6. Mirrored'
  BY <1>1 DEF ServerInv, Mirrored, InService
<1> QED BY <1>3, <1>5, <1>6 DEF ServerInv

\* The channel without its head: what was taken still is, and the head is now.
LEMMA ChannelTail ==
  ASSUME NEW es \in Seq(Events), es # <<>>, NEW n \in Nat, ChannelInOrder(es, n)
  PROVE  /\ Tail(es) \in Seq(Events) /\ Len(Tail(es)) = Len(es) - 1
         /\ ChannelInOrder(Tail(es), n)
         /\ \A x : Taken(x, es, n) => Taken(x, Tail(es), n)
         /\ Head(es) \in Events
         /\ Head(es).kind = "log" => Taken(Head(es).line, Tail(es), n)
<1>1. /\ DOMAIN Tail(es) = 1 .. Len(es) - 1 /\ DOMAIN es = 1 .. Len(es) /\ Len(es) \in Nat \ {0}
      /\ Head(es) = es[1] /\ 1 \in DOMAIN es /\ Tail(es) \in Seq(Events) /\ Len(Tail(es)) = Len(es) - 1
      /\ \A i \in DOMAIN Tail(es) : Tail(es)[i] = es[i + 1] /\ i + 1 \in DOMAIN es /\ 1 < i + 1
      /\ \A i, j \in DOMAIN Tail(es) : i < j => i + 1 < j + 1
      /\ Head(es) \in Events
  OBVIOUS
<1>2. ChannelInOrder(Tail(es), n)
  BY <1>1 DEF ChannelInOrder
<1>3. \A x : Taken(x, es, n) => Taken(x, Tail(es), n)
  BY <1>1 DEF Taken
<1>4. Head(es).kind = "log" => Taken(Head(es).line, Tail(es), n)
  BY <1>1 DEF Taken, ChannelInOrder
<1> QED BY <1>1, <1>2, <1>3, <1>4

\* A line pushed to a ring, the oldest making room for it.
LEMMA RingPush ==
  ASSUME NEW s \in Seq(Lines), NEW n \in Lines, Len(s) <= RingCap,
         NEW es, NEW fs, NEW m, RingInOrder(s, es, m),
         \A x \in Lines : Taken(x, es, m) => Taken(x, fs, m) /\ x < n, Taken(n, fs, m)
  PROVE  LET t == Append(IF Len(s) >= RingCap THEN Tail(s) ELSE s, n)
         IN  t \in Seq(Lines) /\ Len(t) <= RingCap /\ RingInOrder(t, fs, m)
<1> DEFINE u == IF Len(s) >= RingCap THEN Tail(s) ELSE s
<1>1. Len(s) \in Nat /\ RingCap \in Nat \ {0} /\ DOMAIN s = 1 .. Len(s)
  BY ServerAssumption
<1>2. /\ u \in Seq(Lines) /\ Len(u) + 1 <= RingCap /\ Increasing(u)
      /\ \A i \in DOMAIN u : \E j \in DOMAIN s : u[i] = s[j]
  <2>1. CASE Len(s) >= RingCap
    <3>1. s # <<>> /\ u = Tail(s)
      BY <1>1, <2>1
    <3> HIDE DEF u
    <3>2. /\ u \in Seq(Lines) /\ Len(u) = Len(s) - 1 /\ DOMAIN u = 1 .. Len(s) - 1
          /\ \A i \in DOMAIN u : u[i] = s[i + 1] /\ i + 1 \in DOMAIN s
          /\ \A i, j \in DOMAIN u : i < j => i + 1 < j + 1
      BY <1>1, <3>1
    <3>3. Increasing(u)
      BY <3>2 DEF RingInOrder, Increasing
    <3> QED BY <1>1, <3>2, <3>3
  <2>2. CASE ~(Len(s) >= RingCap)
    BY <1>1, <2>2 DEF RingInOrder, Increasing
  <2> QED BY <2>1, <2>2
<1> HIDE DEF u
<1>3. \A i \in DOMAIN u : u[i] < n /\ Taken(u[i], fs, m)
  BY <1>2 DEF RingInOrder
<1>4. /\ Append(u, n) \in Seq(Lines) /\ Increasing(Append(u, n))
      /\ \A i \in DOMAIN Append(u, n) : Append(u, n)[i] = n \/ \E j \in DOMAIN u : Append(u, n)[i] = u[j]
  BY <1>2, <1>3, IncreasingAppend
<1>5. Len(Append(u, n)) <= RingCap
  BY <1>1, <1>2
<1>6. RingInOrder(Append(u, n), fs, m)
  BY <1>3, <1>4 DEF RingInOrder
<1> QED BY <1>4, <1>5, <1>6 DEF u

\* What one event makes of the client's connection.
LEMMA ClientEvent ==
  ASSUME ServerInv, NEW k \in Conns, client = k, events # <<>>, NEW ev, ev = Head(events)
  PROVE  LET r == conn[k]
             s == Enqueued(r, ev)
         IN  /\ s \in Connection /\ InCaps(s) /\ Idle(s) /\ Ordered(s)
             /\ s.phase = r.phase /\ s.reader = r.reader
             /\ s.closed \/ (~r.closed /\ s.writer = r.writer)
             /\ \A x \in Lines : Shows(s, x) => Shows(r, x) \/ (ev.kind = "log" /\ x = ev.line)
             /\ ev.kind = "state" /\ ~s.closed /\ s.writer # "drop" => Mirror(s, [rt EXCEPT ![ev.id] = ev.state])
             /\ ev.kind = "log" /\ ~s.closed /\ s.writer # "drop" => Mirror(s, rt)
<1> DEFINE r == conn[k]
           s == Enqueued(r, ev)
<1>1. /\ r \in Connection /\ InCaps(r) /\ Idle(r) /\ Ordered(r) /\ r.phase = "registered"
      /\ ~r.closed /\ r.writer # "drop" => Mirror(r, rt)
  BY OneOfThem, ServerAssumption DEF ServerInv, Registration
<1>2. /\ events \in Seq(Events) /\ ev \in Events /\ ev = events[1] /\ 1 \in DOMAIN events
      /\ rt \in [Projects -> RunStates]
  BY DEF ServerInv, Typing, SourceTyping
<1>3. CASE r.closed
  <2>1. s = r
    BY <1>3 DEF Enqueued
  <2> HIDE DEF s
  <2> QED BY <1>1, <1>3, <2>1 DEF s
<1>4. CASE ~r.closed /\ ev \in StateEnvs
  <2>1. ev.kind = "state" /\ ev \in CtrlEnvs
    BY <1>4, EnvKinds DEF CtrlEnvs
  <2>2. CASE s = CloseConn(r)
    <3> HIDE DEF s
    <3>1. /\ s \in Connection /\ InCaps(s) /\ s.closed = TRUE
          /\ s.ctrl = <<>> /\ s.logq = <<>> /\ s.hand = r.hand /\ s.lines = r.lines /\ s.view = r.view
          /\ s.phase = r.phase /\ s.reader = r.reader /\ s.writer = r.writer
      BY <1>1, <2>2, ClosedTyped
    <3>2. Ordered(s) /\ \A x \in Lines : Shows(s, x) => Shows(r, x)
      BY <1>1, <3>1, Sheds
    <3> QED BY <1>1, <2>1, <3>1, <3>2 DEF Idle, s
  <2>3. CASE /\ s \in Connection /\ InCaps(s) /\ s.ctrl = Append(r.ctrl, ev)
             /\ s.logq = r.logq /\ s.hand = r.hand /\ s.lines = r.lines /\ s.view = r.view
             /\ s.phase = r.phase /\ s.reader = r.reader /\ s.writer = r.writer /\ s.closed = r.closed
    <3> HIDE DEF s
    <3>1. Ordered(s) /\ \A x \in Lines : Shows(s, x) => Shows(r, x)
      BY <1>1, <1>4, <2>3, QueuesState
    <3>2. s.writer # "drop" => Mirror(s, [rt EXCEPT ![ev.id] = ev.state])
      BY <1>1, <1>2, <1>4, <2>3, MirrorQueuesState
    <3> QED BY <1>1, <1>4, <2>1, <2>3, <3>1, <3>2 DEF Idle, s
  <2> QED BY <1>1, <1>4, <2>1, <2>2, <2>3, EnqueuedCtrl
<1>5. CASE ~r.closed /\ ev \in LogEnvs
  <2>1. ev.kind = "log" /\ ev.line \in Lines
    BY <1>5, EnvKinds
  <2>2. \A x \in Lines : Shows(r, x) => x < ev.line
    BY <1>2, <2>1 DEF ServerInv, InOrder, ShowsTaken, Taken
  <2>3. /\ s \in Connection /\ InCaps(s) /\ s.ctrl = r.ctrl
        /\ \E q \in Seq(LogEnvs) : /\ q = r.logq \/ (r.logq # <<>> /\ q = Tail(r.logq))
                                   /\ s.logq = Append(q, ev)
        /\ s.hand = r.hand /\ s.lines = r.lines /\ s.view = r.view
        /\ s.phase = r.phase /\ s.reader = r.reader /\ s.writer = r.writer /\ s.closed = r.closed
    BY <1>1, <1>5, EnqueuedLog
  <2> HIDE DEF s
  <2>4. Ordered(s) /\ \A x \in Lines : Shows(s, x) => Shows(r, x) \/ x = ev.line
    BY <1>1, <1>5, <2>2, <2>3, QueuesLog
  <2>5. s.writer # "drop" => Mirror(s, rt)
    BY <1>1, <1>5, <2>3, MirrorSame DEF HandView
  <2> QED BY <1>1, <1>5, <2>1, <2>3, <2>4, <2>5 DEF Idle, s
<1> QED BY <1>2, <1>3, <1>4, <1>5 DEF Events

\* applyAndForward: the store or the ring, then the client.
LEMMA SourceEventKeeps ==
  ASSUME ServerInv, SourceEvent
  PROVE  ServerInv'
<1> DEFINE ev == Head(events)
<1>1. /\ events # <<>> /\ events \in Seq(Events) /\ Len(events) <= EventCap /\ emitted \in 0 .. MaxEvents
      /\ rt \in [Projects -> RunStates] /\ ring \in [Projects -> Seq(Lines)]
      /\ conn \in [Conns -> Connection] /\ client \in Conns \cup {0} /\ 0 \notin Conns
      /\ events' = Tail(events) /\ UNCHANGED <<emitted, client, accepting, shutdown, serve, source>>
  BY ServerAssumption DEF SourceEvent, ServerInv, Typing, SourceTyping, ControlTyping
<1>2. /\ events' \in Seq(Events) /\ Len(events') <= EventCap /\ ChannelInOrder(events', emitted)
      /\ \A x : Taken(x, events, emitted) => Taken(x, events', emitted)
      /\ ev \in Events
      /\ ev.kind = "log" => Taken(ev.line, events', emitted)
  <2>1. ChannelInOrder(events, emitted) /\ emitted \in Nat
    BY <1>1, ServerAssumption DEF ServerInv, InOrder
  <2>2. /\ Tail(events) \in Seq(Events) /\ Len(Tail(events)) = Len(events) - 1
        /\ ChannelInOrder(Tail(events), emitted)
        /\ \A x : Taken(x, events, emitted) => Taken(x, Tail(events), emitted)
        /\ Head(events) \in Events
        /\ Head(events).kind = "log" => Taken(Head(events).line, Tail(events), emitted)
    BY <1>1, <2>1, ChannelTail
  <2>3. Len(Tail(events)) <= EventCap
    BY <1>1, <2>2, ServerAssumption
  <2> QED BY <1>1, <2>2, <2>3
<1>3. \/ ev \in StateEnvs /\ ev.kind = "state" /\ ev.id \in Projects /\ ev.state \in RunStates
      \/ ev \in LogEnvs /\ ev.kind = "log" /\ ev.id \in Projects /\ ev.line \in Lines
  BY <1>2, EnvKinds DEF Events
<1>4. /\ rt' = IF ev.kind = "state" THEN [rt EXCEPT ![ev.id] = ev.state] ELSE rt
      /\ ring' = IF ev.kind = "state" THEN ring
                 ELSE [ring EXCEPT ![ev.id] =
                         Append(IF Len(ring[ev.id]) >= RingCap THEN Tail(ring[ev.id]) ELSE ring[ev.id], ev.line)]
      /\ conn' = IF client = 0 THEN conn ELSE [conn EXCEPT ![client] = Enqueued(conn[client], ev)]
  BY <1>1, <1>3 DEF SourceEvent
<1>5. /\ rt' \in [Projects -> RunStates] /\ ring' \in [Projects -> Seq(Lines)]
      /\ \A p \in Projects : Len(ring'[p]) <= RingCap /\ RingInOrder(ring'[p], events', emitted)
  <2>1. rt' \in [Projects -> RunStates]
    BY <1>1, <1>3, <1>4
  <2>2. CASE ev.kind = "state"
    <3>1. \A p \in Projects : RingInOrder(ring[p], events', emitted)
      BY <1>2 DEF ServerInv, InOrder, RingInOrder
    <3> QED BY <1>1, <1>4, <2>1, <2>2, <3>1 DEF ServerInv, Typing, SourceTyping
  <2>3. CASE ev.kind = "log"
    <3> DEFINE s == ring[ev.id]
               t == Append(IF Len(s) >= RingCap THEN Tail(s) ELSE s, ev.line)
    <3>1. ev.id \in Projects /\ ev.line \in Lines /\ ring' = [ring EXCEPT ![ev.id] = t]
      BY <1>3, <1>4, <2>3
    <3>2. s \in Seq(Lines) /\ Len(s) <= RingCap /\ RingInOrder(s, events, emitted)
      BY <1>1, <3>1 DEF ServerInv, Typing, SourceTyping, InOrder
    <3>3. \A x \in Lines : Taken(x, events, emitted) => Taken(x, events', emitted) /\ x < ev.line
      BY <1>1, <1>2, <2>3 DEF Taken
    <3>4. Taken(ev.line, events', emitted)
      BY <1>2, <2>3
    <3>5. t \in Seq(Lines) /\ Len(t) <= RingCap /\ RingInOrder(t, events', emitted)
      BY <3>1, <3>2, <3>3, <3>4, RingPush
    <3>6. \A p \in Projects : RingInOrder(ring[p], events', emitted)
      BY <1>2 DEF ServerInv, InOrder, RingInOrder
    <3> HIDE DEF t
    <3> QED BY <1>1, <2>1, <3>1, <3>5, <3>6 DEF ServerInv, Typing, SourceTyping
  <2> QED BY <1>3, <2>2, <2>3
<1>6. CASE client = 0
  <2>1. conn' = conn
    BY <1>4, <1>6
  <2>2. Typing' /\ Registration'
    BY <1>1, <1>2, <1>5, <2>1 DEF ServerInv, Typing, SourceTyping, ControlTyping, Registration
  <2>3. InOrder'
    BY <1>1, <1>2, <1>5, <2>1 DEF ServerInv, InOrder, ShowsTaken
  <2>4. Mirrored'
    BY <1>1, <1>6 DEF Mirrored, InService
  <2> QED BY <2>2, <2>3, <2>4 DEF ServerInv
<1>7. CASE client \in Conns
  <2> DEFINE r == conn[client]
             s == Enqueued(r, ev)
  <2>1. conn' = [conn EXCEPT ![client] = s]
    BY <1>1, <1>4, <1>7
  <2>2. /\ s \in Connection /\ InCaps(s) /\ Idle(s) /\ Ordered(s)
        /\ s.phase = r.phase /\ s.reader = r.reader
        /\ s.closed \/ (~r.closed /\ s.writer = r.writer)
        /\ \A x \in Lines : Shows(s, x) => Shows(r, x) \/ (ev.kind = "log" /\ x = ev.line)
        /\ ev.kind = "state" /\ ~s.closed /\ s.writer # "drop" => Mirror(s, [rt EXCEPT ![ev.id] = ev.state])
        /\ ev.kind = "log" /\ ~s.closed /\ s.writer # "drop" => Mirror(s, rt)
    BY <1>1, <1>7, ClientEvent
  <2> HIDE DEF s
  <2>3. conn'[client] = s /\ \A k \in Conns : k # client => conn'[k] = conn[k]
    BY <1>1, <1>7, <2>1
  <2>4. Typing'
    <3>1. conn' \in [Conns -> Connection] /\ \A k \in Conns : InCaps(conn'[k])
      BY <1>1, <2>1, <2>2, <2>3 DEF ServerInv, Typing
    <3> QED BY <1>1, <1>2, <1>5, <3>1 DEF ServerInv, Typing, SourceTyping, ControlTyping
  <2>5. Registration'
    BY <1>1, <1>7, <2>2, <2>3 DEF ServerInv, Registration
  <2>6. InOrder'
    <3>1. ShowsTaken(s, events', emitted)
      BY <1>2, <1>7, <2>2 DEF ServerInv, InOrder, ShowsTaken
    <3>2. \A k \in Conns : ShowsTaken(conn[k], events', emitted)
      BY <1>2 DEF ServerInv, InOrder, ShowsTaken
    <3> QED BY <1>1, <1>2, <1>5, <2>2, <2>3, <3>1, <3>2 DEF ServerInv, InOrder
  <2>7. Mirrored'
    <3> SUFFICES ASSUME NEW k \in Conns, InService(k)' PROVE Mirror(conn'[k], rt')
      BY DEF Mirrored
    <3>1. k = client /\ ~s.closed /\ s.writer # "drop"
      BY <1>1, <2>3 DEF InService
    <3> QED BY <1>3, <1>4, <2>2, <2>3, <3>1
  <2> QED BY <2>4, <2>5, <2>6, <2>7 DEF ServerInv
<1> QED BY <1>1, <1>6, <1>7

\* What registration makes of a connection: the snapshot is the first thing it is sent.
LEMMA RegisteredConnection ==
  ASSUME ServerInv, NEW k \in Conns, accepting = k
  PROVE  LET r == conn[k]
             s == [Enqueued(r, Snapshot) EXCEPT !.phase = "registered", !.reader = "read"]
         IN  /\ s \in Connection /\ InCaps(s) /\ Ordered(s) /\ s.phase = "registered"
             /\ \A x \in Lines : Shows(s, x) => Taken(x, events, emitted)
             /\ ~s.closed => Mirror(s, rt)
<1> DEFINE r == conn[k]
           e == Snapshot
           q == Enqueued(r, e)
           s == [q EXCEPT !.phase = "registered", !.reader = "read"]
<1>1. /\ r \in Connection /\ InCaps(r) /\ Ordered(r) /\ Empty(r)
  BY OneOfThem DEF ServerInv, Registration, Idle
<1>2. /\ e \in Snapshots /\ e \in CtrlEnvs /\ e.states = rt /\ e.lines = ring
      /\ \A p \in Projects : Increasing(e.lines[p])
      /\ \A p \in Projects : \A i \in DOMAIN e.lines[p] : Taken(e.lines[p][i], events, emitted)
  <2>1. e \in Snapshots /\ e.states = rt /\ e.lines = ring
    BY DEF Snapshot, Snapshots, ServerInv, Typing, SourceTyping
  <2> HIDE DEF e
  <2> QED BY <2>1 DEF CtrlEnvs, ServerInv, InOrder, RingInOrder
<1>3. \A x \in Lines : Shows(r, x) => Taken(x, events, emitted)
  BY DEF ServerInv, InOrder, ShowsTaken
<1>4. CASE r.closed
  <2>1. q = r
    BY <1>4 DEF Enqueued
  <2> HIDE DEF q
  <2>2. /\ s \in Connection /\ s.lines = r.lines /\ s.hand = r.hand /\ s.ctrl = r.ctrl /\ s.logq = r.logq
        /\ s.closed = r.closed /\ s.writer = r.writer /\ s.phase = "registered"
    BY <1>1, <2>1 DEF Connection
  <2> HIDE DEF s
  <2>3. Ordered(s) /\ \A x \in Lines : Shows(s, x) => Shows(r, x)
    BY <1>1, <2>2, Sheds
  <2>4. InCaps(s)
    BY <1>1, <2>2 DEF InCaps
  <2> QED BY <1>3, <1>4, <2>2, <2>3, <2>4 DEF s, q
<1>5. CASE ~r.closed
  <2>1. ~(Len(r.ctrl) >= CtrlCap)
    BY <1>1, ServerAssumption DEF Empty
  <2>2. /\ ~r.closed /\ q \in Connection /\ InCaps(q) /\ q.ctrl = Append(r.ctrl, e)
        /\ q.logq = r.logq /\ q.hand = r.hand /\ q.lines = r.lines /\ q.view = r.view
        /\ q.phase = r.phase /\ q.reader = r.reader /\ q.writer = r.writer /\ q.closed = r.closed
    <3> HIDE DEF e
    <3> QED BY <1>1, <1>2, <1>5, <2>1, EnqueuedCtrl
  <2> HIDE DEF q, e
  <2>3. /\ s \in Connection /\ s.lines = r.lines /\ s.hand = r.hand /\ s.ctrl = Append(r.ctrl, e)
        /\ s.logq = r.logq /\ s.writer = r.writer /\ s.phase = "registered" /\ s.closed = r.closed
    BY <2>2 DEF Connection
  <2> HIDE DEF s
  <2>4. InCaps(s)
    BY <2>2, <2>3 DEF InCaps
  <2>5. /\ Ordered(s)
        /\ \A x \in Lines : Shows(s, x) =>
             \E p \in Projects : \E i \in DOMAIN e.lines[p] : x = e.lines[p][i]
    BY <1>1, <1>2, <2>3, QueuesSnapshot
  <2>6. Mirror(s, rt)
    <3>1. s.ctrl = <<e>>
      BY <1>1, <2>3 DEF Empty
    <3>2. Mirror(s, e.states)
      BY <1>2, <3>1, MirrorQueuesSnapshot
    <3> QED BY <1>2, <3>2
  <2>7. \A x \in Lines : Shows(s, x) => Taken(x, events, emitted)
    BY <1>2, <2>5
  <2> QED BY <2>3, <2>4, <2>5, <2>6, <2>7 DEF s, q, e
<1> QED BY <1>4, <1>5

\* registerClient: the new client gets the snapshot, the old one is closed.
LEMMA SourceRegistersKeeps ==
  ASSUME ServerInv, NEW k \in Conns, SourceRegisters(k)
  PROVE  ServerInv'
<1> DEFINE s == [Enqueued(conn[k], Snapshot) EXCEPT !.phase = "registered", !.reader = "read"]
<1>1. /\ UNCHANGED <<events, emitted, rt, ring, shutdown, serve, source>> /\ client' = k /\ accepting' = 0
      /\ accepting = k /\ 0 \notin Conns
      /\ ControlTyping' /\ SourceTyping' /\ conn \in [Conns -> Connection]
  BY ServerAssumption DEF SourceRegisters, srcVars, ServerInv, Typing, ControlTyping, SourceTyping
<1>2. /\ s \in Connection /\ InCaps(s) /\ Ordered(s) /\ s.phase = "registered"
      /\ \A x \in Lines : Shows(s, x) => Taken(x, events, emitted)
      /\ ~s.closed => Mirror(s, rt)
  BY <1>1, RegisteredConnection
<1>3. conn' = [j \in Conns |-> IF j = k THEN s ELSE IF j = client THEN CloseConn(conn[j]) ELSE conn[j]]
  BY DEF SourceRegisters
<1> HIDE DEF s
<1>4. \A j \in Conns :
        LET c == CloseConn(conn[j]) IN
        /\ c \in Connection /\ InCaps(c) /\ c.closed = TRUE
        /\ c.ctrl = <<>> /\ c.logq = <<>> /\ c.hand = conn[j].hand /\ c.lines = conn[j].lines
        /\ c.phase = conn[j].phase /\ c.reader = conn[j].reader
        /\ Ordered(c) /\ (\A x \in Lines : Shows(c, x) => Shows(conn[j], x))
  <2> SUFFICES ASSUME NEW j \in Conns
               PROVE  LET c == CloseConn(conn[j]) IN
                      /\ c \in Connection /\ InCaps(c) /\ c.closed = TRUE
                      /\ c.ctrl = <<>> /\ c.logq = <<>> /\ c.hand = conn[j].hand /\ c.lines = conn[j].lines
                      /\ c.phase = conn[j].phase /\ c.reader = conn[j].reader
                      /\ Ordered(c) /\ (\A x \in Lines : Shows(c, x) => Shows(conn[j], x))
    OBVIOUS
  <2> DEFINE c == CloseConn(conn[j])
  <2>1. conn[j] \in Connection /\ InCaps(conn[j]) /\ Ordered(conn[j])
    BY OneOfThem
  <2>2. /\ c \in Connection /\ InCaps(c) /\ c.closed = TRUE
        /\ c.ctrl = <<>> /\ c.logq = <<>> /\ c.hand = conn[j].hand /\ c.lines = conn[j].lines
        /\ c.phase = conn[j].phase /\ c.reader = conn[j].reader
    BY <2>1, ClosedTyped
  <2> HIDE DEF c
  <2>3. Ordered(c) /\ \A x \in Lines : Shows(c, x) => Shows(conn[j], x)
    BY <2>1, <2>2, Sheds
  <2> QED BY <2>2, <2>3 DEF c
<1>5. /\ conn'[k] = s
      /\ \A j \in Conns : j # k => conn'[j] = IF j = client THEN CloseConn(conn[j]) ELSE conn[j]
  BY <1>3
<1>6. conn' \in [Conns -> Connection] /\ \A j \in Conns : InCaps(conn'[j]) /\ Ordered(conn'[j])
  <2>1. \A j \in Conns : conn'[j] \in Connection /\ InCaps(conn'[j]) /\ Ordered(conn'[j])
    BY <1>2, <1>4, <1>5, OneOfThem
  <2> QED BY <1>3, <2>1
<1>7. Registration'
  <2>1. \A j \in Conns : Idle(conn'[j])
    BY <1>2, <1>4, <1>5, OneOfThem DEF Idle, Empty
  <2>2. \A j \in Conns : conn'[j].reader = "read" /\ ~conn'[j].closed => j = k
    BY <1>4, <1>5 DEF ServerInv, Registration
  <2> QED BY <1>1, <1>2, <1>5, <2>1, <2>2 DEF Registration
<1>8. InOrder'
  <2>1. \A j \in Conns : ShowsTaken(conn'[j], events, emitted)
    BY <1>2, <1>4, <1>5 DEF ServerInv, InOrder, ShowsTaken
  <2> QED BY <1>1, <1>6, <2>1 DEF ServerInv, InOrder
<1>9. Mirrored'
  BY <1>1, <1>2, <1>5 DEF Mirrored, InService
<1> QED BY <1>1, <1>6, <1>7, <1>8, <1>9 DEF ServerInv, Typing

-----------------------------------------------------------------------------
(* The theorems.                                                           *)
LEMMA ServerInit == Init => ServerInv
<1> SUFFICES ASSUME Init PROVE ServerInv
  OBVIOUS
<1>1. /\ NoEnv \in EnvSet /\ NoEnv.kind = "none"
      /\ <<>> \in Seq(CtrlEnvs) /\ <<>> \in Seq(LogEnvs) /\ <<>> \in Seq(Events) /\ <<>> \in Seq(Lines)
  BY EnvParts, EnvKinds
<1>2. "idle" \in RunStates /\ MaxEvents \in Nat /\ EventCap \in Nat /\ RingCap \in Nat /\ CtrlCap \in Nat
      /\ LogCap \in Nat /\ 0 \notin Conns
  BY ServerAssumption
<1>3. NewConn \in Connection
  BY <1>1, <1>2 DEF NewConn, Connection
<1>4. /\ NewConn.ctrl = <<>> /\ NewConn.logq = <<>> /\ NewConn.hand = NoEnv /\ NewConn.writer = "off"
      /\ NewConn.reader = "off" /\ NewConn.phase = "new" /\ \A p \in Projects : NewConn.lines[p] = <<>>
  BY DEF NewConn
<1>5. InCaps(NewConn) /\ Idle(NewConn)
  BY <1>2, <1>4 DEF InCaps, Idle, Empty
<1>6. Ordered(NewConn) /\ \A x : ~Shows(NewConn, x)
  <2>1. DOMAIN NewConn.ctrl = {} /\ DOMAIN NewConn.logq = {} /\ \A p \in Projects : DOMAIN NewConn.lines[p] = {}
    BY <1>4
  <2> QED BY <1>1, <1>4, <2>1 DEF Ordered, SnapshotFirst, LinesFollow, SnapshotInOrder, Increasing,
                                  Shows, Brought, Brings, Has, Follows
<1>7. conn \in [Conns -> Connection] /\ \A k \in Conns : conn[k] = NewConn
  BY <1>3 DEF Init
<1>8. Typing
  <2>1. SourceTyping
    BY <1>1, <1>2 DEF Init, SourceTyping
  <2>2. ControlTyping
    BY DEF Init, ControlTyping
  <2> QED BY <1>5, <1>7, <2>1, <2>2 DEF Typing
<1>9. Registration
  BY <1>2, <1>4, <1>5, <1>7 DEF Init, Registration
<1>10. InOrder
  <2>1. DOMAIN events = {} /\ \A p \in Projects : DOMAIN ring[p] = {}
    BY DEF Init
  <2> QED BY <1>6, <1>7, <2>1 DEF InOrder, ChannelInOrder, RingInOrder, Increasing, ShowsTaken
<1>11. Mirrored
  BY <1>2 DEF Init, Mirrored, InService
<1> QED BY <1>8, <1>9, <1>10, <1>11 DEF ServerInv

\* Every step keeps the invariant.
LEMMA ServerNext == ServerInv /\ [Next]_vars => ServerInv'
<1> SUFFICES ASSUME ServerInv, [Next]_vars PROVE ServerInv'
  OBVIOUS
<1>1. CASE UNCHANGED vars
  <2>1. /\ UNCHANGED <<events, emitted, rt, ring, conn, client, accepting>> /\ ControlTyping'
    BY <1>1 DEF vars, ServerInv, Typing, ControlTyping
  <2> QED BY <2>1, NoConnection
<1>2. ASSUME NEW p \in Projects, ChildChangesState(p) \/ ChildWritesLine(p) PROVE ServerInv'
  <2>1. CASE ChildChangesState(p)
    <3>1. PICK s \in RunStates : Emit(StateEnv(p, s))
      BY <2>1 DEF ChildChangesState
    <3>2. StateEnv(p, s) \in Events /\ StateEnv(p, s).kind # "log"
      BY DEF Events, StateEnvs, StateEnv
    <3> QED BY <3>1, <3>2, EmitKeeps
  <2>2. CASE ChildWritesLine(p)
    <3>1. Emit(LogEnv(p, emitted + 1))
      BY <2>2 DEF ChildWritesLine
    <3>2. emitted + 1 \in Lines
      BY <3>1, ServerAssumption DEF Emit, Lines, ServerInv, Typing, SourceTyping
    <3>3. LogEnv(p, emitted + 1) \in Events /\ LogEnv(p, emitted + 1).line = emitted + 1
      BY <3>2 DEF Events, LogEnvs, LogEnv
    <3> QED BY <3>1, <3>3, EmitKeeps
  <2> QED BY <1>2, <2>1, <2>2
<1>3. ASSUME NEW k \in Conns, WriterStep(k) \/ DropAtShutdown(k) \/ ReaderEnds(k) \/ PeerQuits(k)
      PROVE  ServerInv'
  BY <1>3, WriterTakesKeeps, WriterWritesKeeps, ConnectionEnds DEF WriterStep
<1>4. ASSUME NEW k \in Conns, Accept(k) \/ AcceptAtShutdown(k) PROVE ServerInv'
  BY <1>4, AcceptKeeps
<1>5. ASSUME NEW k \in Conns, SourceRegisters(k) \/ SourceUnregisters(k) PROVE ServerInv'
  BY <1>5, SourceRegistersKeeps, SourceUnregistersKeeps
<1>6. CASE SourceStep \/ ServeStep \/ RequestShutdown
  BY <1>6, SourceEventKeeps, SourceEndsKeeps, ServeKeeps DEF SourceStep
<1> QED BY <1>1, <1>2, <1>3, <1>4, <1>5, <1>6 DEF Next

\* The server's invariant holds in every state it can be in.
THEOREM ServerKept == Spec => []ServerInv
<1>1. Init => ServerInv
  BY ServerInit
<1>2. ServerInv /\ [Next]_vars => ServerInv'
  BY ServerNext
<1> QED BY <1>1, <1>2, PTL DEF Spec

\* Every queue stays within its cap (enqueue, emit, the rings), and every goroutine is
\* somewhere.
THEOREM QueuesBounded == Spec => []TypeOK
<1>1. ServerInv => TypeOK
  <2> SUFFICES ASSUME ServerInv PROVE TypeOK
    OBVIOUS
  <2>1. SourceTyping /\ ControlTyping /\ conn \in [Conns -> Connection] /\ \A k \in Conns : InCaps(conn[k])
    BY DEF ServerInv, Typing
  <2>2. CtrlEnvs \subseteq EnvSet /\ LogEnvs \subseteq EnvSet
    BY EnvParts DEF CtrlEnvs
  <2>3. ASSUME NEW k \in Conns
        PROVE  LET r == conn[k] IN
               /\ r.phase \in {"new", "dialled", "registered"}
               /\ r.ctrl \in Seq(EnvSet) /\ Len(r.ctrl) <= CtrlCap
               /\ r.logq \in Seq(EnvSet) /\ Len(r.logq) <= LogCap
               /\ r.writer \in {"off", "wait", "write", "drop", "done"}
               /\ r.reader \in {"off", "read", "unregister", "done"}
               /\ r.hand \in EnvSet /\ (r.hand = NoEnv <=> r.writer # "write")
    <3>1. conn[k] \in Connection /\ InCaps(conn[k])
      BY <2>1
    <3>2. conn[k].ctrl \in Seq(EnvSet) /\ conn[k].logq \in Seq(EnvSet)
      BY <2>2, <3>1, Parts, SeqMonotonic
    <3> QED BY <3>1, <3>2, Parts DEF InCaps
  <2> QED BY <2>1, <2>3 DEF TypeOK, SourceTyping, ControlTyping, Lines
<1> QED BY <1>1, ServerKept, PTL

\* A client in service misses no state the source has applied (applyAndForward, enqueue,
\* registerClient), and an open connection that is read from is the client.
THEOREM HandoffKept == Spec => []Handoff
<1>1. ServerInv => Handoff
  <2> SUFFICES ASSUME ServerInv, NEW k \in Conns
               PROVE  /\ Served(k) => \A p \in Projects : CaughtUp(InHand(k).view, conn[k].ctrl, p, rt[p])
                      /\ conn[k].reader = "read" /\ ~conn[k].closed => client = k
    BY DEF Handoff
  <2>1. conn[k] \in Connection /\ InCaps(conn[k]) /\ (Served(k) => Mirror(conn[k], rt))
    BY OneOfThem DEF Served
  <2>2. InHand(k).view = HandView(conn[k])
    <3>1. CASE conn[k].hand = NoEnv
      BY <3>1, EnvKinds DEF InHand, HandView
    <3>2. CASE conn[k].hand # NoEnv
      <4>1. [Applied(conn[k], conn[k].hand) EXCEPT !.hand = NoEnv, !.writer = "wait"].view = HandView(conn[k])
        BY <2>1, <3>2, AppliedTyped
      <4>2. conn[k].hand.kind \in {"state", "log", "snapshot"}
        BY <2>1, <3>2, Parts, EnvParts, EnvKinds
      <4>3. [Applied(conn[k], conn[k].hand) EXCEPT !.hand = NoEnv, !.writer = "wait"].view
              = Applied(conn[k], conn[k].hand).view
        BY <2>1, <4>2 DEF Applied, Connection
      <4> QED BY <3>2, <4>1, <4>3 DEF InHand
    <3> QED BY <3>1, <3>2
  <2> QED BY <2>1, <2>2 DEF Mirror, ServerInv, Registration
<1> QED BY <1>1, ServerKept, PTL

\* No log line reaches a client twice or out of order, though snapshot and live lines travel in
\* different queues (registerClient, writeLoop).
THEOREM LogsInOrder == Spec => []LogOrder
<1>1. ServerInv => LogOrder
  BY DEF ServerInv, InOrder, Ordered, LinesFollow, LogOrder
<1> QED BY <1>1, ServerKept, PTL
===============================================================================
