-------------------------- MODULE SidebarProperties --------------------------
(***************************************************************************)
(* What the user is promised of the sidebar: it shows the store, it keeps  *)
(* to the project that was chosen, and the log panel follows it.           *)
(***************************************************************************)
EXTENDS Sidebar

\* Every variable keeps to its kind; the rows are in order and name each id once.
TypeOK ==
  /\ DOMAIN store \subseteq Ids /\ \A id \in DOMAIN store : store[id] \in States
  /\ \A p \in Pumps : pump[p].pc \in {"waiting", "reading", "carrying"} /\ pump[p].token \in BOOLEAN
  /\ \A i, j \in DOMAIN rows : i < j => Precedes(rows[i].id, rows[j].id)
  /\ cursor \in 0 .. Len(Order) - 1 /\ chosen \in Ids \cup {NoId}
  /\ DOMAIN gens \subseteq Ids /\ \A id \in DOMAIN gens : gens[id] \in 0 .. MaxGen
  /\ panel.gen \in 0 .. MaxGen

\* While the project the user chose has a row, the highlighted row is that one,
\* whatever appeared or went above it and in whatever order the snapshots came
\* (SetRows, then syncSelectedFromStore): start, stop and clear act on it.
SelectionKept ==
  /\ TypeOK
  /\ (\E i \in DOMAIN rows : rows[i].id = chosen) => Selected = chosen

\* A change that found a command waiting is shown, unless the store moves on:
\* ticks are coalesced, but none is answered with a snapshot older than itself
\* (waitRuntimeChange).
Stores == UNION {[ids -> States] : ids \in SUBSET Ids}
NoticeShown ==
  \A s \in Stores :
    (store = s /\ \E p \in Pumps : pump[p].token) ~> (store # s \/ IsSnapshotOf(rows, s))

\* "We create a fresh subscription so we don't miss notifications that arrived
\* while we were processing the previous one" (pump.go:33): once the store is left
\* alone, the sidebar shows it.
SidebarSettles == (<>[][FALSE]_store) => <>[](IsSnapshotOf(rows, store))

\* "refreshLogPanel re-reads the ring buffer for the selected project"
\* (app.go:375): lines it takes to be up to date are the highlighted project's.
PanelShowsSelected ==
  Selected \in DOMAIN gens /\ panel.id # NoId /\ panel.gen = gens[Selected] => panel.id = Selected
=============================================================================
