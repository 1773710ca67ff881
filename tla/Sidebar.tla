------------------------------- MODULE Sidebar -------------------------------
(***************************************************************************)
(* How the TUI follows the runtime store: the store and its subscriptions  *)
(* (internal/state/runtime.go), the commands that wait for a change and    *)
(* bring a snapshot to Update (internal/tui/pump.go), the sidebar's rows   *)
(* and cursor (panes/sidebar.go), the selection kept in the UIStore, and   *)
(* the log panel that follows both through the generation counter of the   *)
(* selected project's ring.                                                *)
(*                                                                         *)
(* Model.Init starts a snapshot command and a subscription, and each       *)
(* RuntimeChangedMsg subscribes again: two pumps run for ever, and Bubble  *)
(* Tea runs each command in a goroutine of its own, so that their messages *)
(* come in either order.  A channel nobody waits on any more stays in the  *)
(* store's list and is left out here: nothing reads it.                    *)
(***************************************************************************)
EXTENDS Naturals, Sequences, Functions

CONSTANTS
  Order,     \* the project ids in the order Snapshot sorts them
  First,     \* the ids seeded before the TUI starts
  States,    \* the states a project's entry is told apart by, "idle" among them
  MaxGen     \* bound: pushes to and clears of a ring

NoId == ""

\* A configuration has a project, and the ids are the keys of a map.  The empty id,
\* which the code takes for none, is left out.
ASSUME SidebarAssumption ==
  /\ Order \in Seq(Range(Order)) /\ Order # <<>> /\ IsInjective(Order) /\ NoId \notin Range(Order)
  /\ First \subseteq Range(Order) /\ "idle" \in States /\ MaxGen \in Nat \ {0}

VARIABLES
  store,     \* RuntimeStore.m: what is known of the ids known
  pump,      \* the two commands: where each is, its channel's token, its snapshot
  rows,      \* Sidebar.rows
  cursor,    \* Sidebar.cursor, from 0
  chosen,    \* UIStore.SelectedID, "" when none
  gens,      \* Registry.m: the generation of each ring made so far
  panel      \* whose lines the log panel shows, and lastLogGen
vars == <<store, pump, rows, cursor, chosen, gens, panel>>

Ids == Range(Order)
Pumps == {1, 2}

\* RuntimeStore.Snapshot: an entry for each id in the store, sorted by id.
Snapshots == UNION {[1 .. n -> [id : Ids, state : States]] : n \in 0 .. Len(Order)}
Precedes(a, b) == \E x, y \in DOMAIN Order : x < y /\ Order[x] = a /\ Order[y] = b
IsSnapshotOf(rs, s) ==
  /\ {rs[i].id : i \in DOMAIN rs} = DOMAIN s
  /\ \A i \in DOMAIN rs : rs[i].state = s[rs[i].id]
  /\ \A i, j \in DOMAIN rs : i < j => Precedes(rs[i].id, rs[j].id)

Init ==
  /\ store = [id \in First |-> "idle"]
  /\ pump = [p \in Pumps |-> [pc |-> IF p = 1 THEN "reading" ELSE "waiting",
                              token |-> FALSE, snap |-> <<>>]]
  /\ rows = <<>> /\ cursor = 0 /\ chosen = NoId
  /\ gens = <<>>
  /\ panel = [id |-> NoId, gen |-> 0]
-----------------------------------------------------------------------------
(* The store: every change offers a token to each channel, whose capacity  *)
(* is one.                                                                 *)
Notified == [p \in Pumps |-> IF pump[p].pc = "waiting" THEN [pump[p] EXCEPT !.token = TRUE] ELSE pump[p]]
StoreChanges(s) ==
  /\ store' = s /\ pump' = Notified
  /\ UNCHANGED <<rows, cursor, chosen, gens, panel>>

With(s, ids, st) == [id \in DOMAIN s \cup ids |-> IF id \in ids THEN st ELSE s[id]]

\* Apply of an event and Set of a snapshot's project make the entry they lack.
Apply == \E id \in Ids, st \in States : StoreChanges(With(store, {id}, st))
\* handleReloadResult: added projects are seeded, removed ones deleted.
Seed == \E ids \in SUBSET Ids \ {{}} : StoreChanges(With(store, ids \ DOMAIN store, "idle"))
Delete == \E ids \in SUBSET Ids \ {{}} : StoreChanges(Restrict(store, DOMAIN store \ ids))

PumpTakesReadBefore(p) ==
  /\ pump[p].pc = "waiting" /\ pump[p].token
  /\ pump' = [pump EXCEPT ![p].pc = "carrying", ![p].token = FALSE, ![p].snap = rows]
  /\ UNCHANGED <<store, rows, cursor, chosen, gens, panel>>
\* The command waitRuntimeChange returns: the token, then a snapshot.
PumpTakes(p) ==
  /\ pump[p].pc = "waiting" /\ pump[p].token
  /\ pump' = [pump EXCEPT ![p].pc = "reading", ![p].token = FALSE]
  /\ UNCHANGED <<store, rows, cursor, chosen, gens, panel>>
PumpReads(p) ==
  /\ pump[p].pc = "reading"
  /\ \E snap \in Snapshots :
       /\ IsSnapshotOf(snap, store)
       /\ pump' = [pump EXCEPT ![p].pc = "carrying", ![p].snap = snap]
  /\ UNCHANGED <<store, rows, cursor, chosen, gens, panel>>
-----------------------------------------------------------------------------
(* The sidebar.                                                            *)
SelectedIn(rs, c) == IF c < Len(rs) THEN rs[c + 1].id ELSE NoId
Selected == SelectedIn(rows, cursor)

RowOfNone(rs, id, c) == c
\* SetSelected: the row of id, the cursor where it was when there is none.
RowOf(rs, id, c) ==
  IF \E i \in DOMAIN rs : rs[i].id = id THEN (CHOOSE i \in DOMAIN rs : rs[i].id = id) - 1 ELSE c

\* SetRows, then syncSelectedFromStore, then a new subscription.
HandleRuntimeChanged(p) ==
  LET snap == pump[p].snap
      clamped == IF cursor >= Len(snap) /\ snap # <<>> THEN Len(snap) - 1 ELSE cursor
  IN /\ pump[p].pc = "carrying"
     /\ rows' = snap
     /\ cursor' = RowOf(snap, chosen, clamped)
     /\ chosen' = IF chosen = NoId THEN SelectedIn(snap, clamped) ELSE chosen
     /\ pump' = [pump EXCEPT ![p] = [pc |-> "waiting", token |-> FALSE, snap |-> <<>>]]
     /\ UNCHANGED <<store, gens, panel>>

\* refreshLogPanel: the ring is made when there is none, its lines are read when
\* its generation is not the last one seen.
Refreshed(gs, id) ==
  /\ gens' = IF id = NoId \/ id \in DOMAIN gs THEN gs ELSE With(gs, {id}, 0)
  /\ panel' = IF id = NoId \/ gens'[id] = panel.gen THEN panel ELSE [id |-> id, gen |-> gens'[id]]

MovesTo(c) ==
  /\ cursor' = c
  /\ chosen' = IF SelectedIn(rows, c) # NoId THEN SelectedIn(rows, c) ELSE chosen
  /\ Refreshed(gens, SelectedIn(rows, c))
  /\ UNCHANGED <<store, pump, rows>>
Up == MovesTo(IF cursor > 0 THEN cursor - 1 ELSE cursor)
Down == MovesTo(IF cursor + 1 < Len(rows) THEN cursor + 1 ELSE cursor)
QuickJump == \E i \in 0 .. Len(rows) - 1 : MovesTo(i)

LogTick == Refreshed(gens, Selected) /\ UNCHANGED <<store, pump, rows, cursor, chosen>>

\* Registry.ClearBuffer knows only rings that were made.
ClearBuffer ==
  /\ Selected # NoId
  /\ Selected \in DOMAIN gens => gens[Selected] < MaxGen
  /\ Refreshed(IF Selected \in DOMAIN gens THEN [gens EXCEPT ![Selected] = @ + 1] ELSE gens, Selected)
  /\ UNCHANGED <<store, pump, rows, cursor, chosen>>

\* A line of id comes: its ring is made if need be, its generation grows.
Push(id) ==
  /\ id \in DOMAIN gens => gens[id] < MaxGen
  /\ gens' = With(gens, {id}, IF id \in DOMAIN gens THEN gens[id] + 1 ELSE 1)
  /\ UNCHANGED <<store, pump, rows, cursor, chosen, panel>>
-----------------------------------------------------------------------------
Next ==
  \/ Apply \/ Seed \/ Delete
  \/ \E p \in Pumps : PumpTakes(p) \/ PumpReads(p) \/ HandleRuntimeChanged(p)
  \/ Up \/ Down \/ QuickJump \/ LogTick \/ ClearBuffer
  \/ \E id \in Ids : Push(id)
Spec == Init /\ [][Next]_vars

\* The goroutines of the commands run, and Bubble Tea delivers each message.
Fairness ==
  \A p \in Pumps : WF_vars(PumpTakes(p)) /\ WF_vars(PumpReads(p)) /\ WF_vars(HandleRuntimeChanged(p))
FairSpec == Spec /\ Fairness
=============================================================================
