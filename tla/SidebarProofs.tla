---------------------------- MODULE SidebarProofs ----------------------------
(***************************************************************************)
(* The highlighted row stays with the project that was chosen: a theorem   *)
(* about module Sidebar for every set of projects and states, in whatever  *)
(* order the snapshots of the two pumps are delivered.                     *)
(***************************************************************************)
EXTENDS SidebarProperties, TLAPS

Ordered(rs) == \A i, j \in DOMAIN rs : i < j => Precedes(rs[i].id, rs[j].id)
IsPump(r) ==
  /\ r \in [pc : {"waiting", "reading", "carrying"}, token : BOOLEAN, snap : Snapshots]
  /\ Ordered(r.snap)

StoreKnown == DOMAIN store \subseteq Ids /\ \A id \in DOMAIN store : store[id] \in States
PumpsKnown == DOMAIN pump = Pumps /\ \A p \in Pumps : IsPump(pump[p])
RowsKnown == rows \in Snapshots /\ Ordered(rows)
RingsKnown(gs) == DOMAIN gs \subseteq Ids /\ \A id \in DOMAIN gs : gs[id] \in 0 .. MaxGen
Panels == [id : Ids \cup {NoId}, gen : 0 .. MaxGen]

\* As long as there are rows the cursor is on one of them; the rows may be gone and
\* the cursor where it was.
OnRow == cursor \in 0 .. Len(Order) - 1 /\ (rows # <<>> => cursor < Len(rows))

Kept == (\E i \in DOMAIN rows : rows[i].id = chosen) => Selected = chosen

SidebarInv ==
  /\ StoreKnown /\ PumpsKnown /\ RowsKnown /\ RingsKnown(gens) /\ panel \in Panels
  /\ OnRow /\ chosen \in Ids \cup {NoId} /\ Kept
-----------------------------------------------------------------------------
\* The projects are the members of a sequence that is not empty.
LEMMA OrderIs ==
  /\ Order \in Seq(Ids) /\ Len(Order) \in Nat \ {0} /\ NoId \notin Ids
  /\ First \subseteq Ids /\ "idle" \in States /\ MaxGen \in Nat \ {0}
  BY SidebarAssumption DEF Ids, SidebarAssumption

\* A function on 1 .. n is a sequence of length n.
LEMMA FunctionIsSeq ==
  ASSUME NEW S, NEW n \in Nat, NEW f \in [1 .. n -> S]
  PROVE  f \in Seq(S) /\ Len(f) = n
  OBVIOUS

\* A snapshot is a sequence of entries, no longer than the list of the projects.
LEMMA SnapshotIs ==
  ASSUME NEW rs \in Snapshots
  PROVE  /\ rs \in Seq([id : Ids, state : States]) /\ Len(rs) \in 0 .. Len(Order)
         /\ DOMAIN rs = 1 .. Len(rs) /\ \A i \in 1 .. Len(rs) : rs[i].id \in Ids
         /\ rs = <<>> <=> Len(rs) = 0
<1>1. PICK n \in 0 .. Len(Order) : rs \in [1 .. n -> [id : Ids, state : States]]
  BY DEF Snapshots
<1>2. n \in Nat /\ n <= Len(Order)
  BY OrderIs
<1>3. rs \in Seq([id : Ids, state : States]) /\ Len(rs) = n
  BY ONLY <1>1, <1>2, FunctionIsSeq
<1> QED BY <1>1, <1>2, <1>3, OrderIs

\* The project under the cursor, when the cursor is on a row.
LEMMA SelectedIs ==
  ASSUME NEW rs \in Snapshots, NEW c \in Nat
  PROVE  /\ c < Len(rs) => SelectedIn(rs, c) = rs[c + 1].id /\ c + 1 \in DOMAIN rs
         /\ c >= Len(rs) => SelectedIn(rs, c) = NoId
         /\ SelectedIn(rs, c) \in Ids \cup {NoId}
         /\ SelectedIn(rs, c) # NoId => c < Len(rs)
  BY SnapshotIs, OrderIs DEF SelectedIn

\* SetSelected finds the row of a project that has one.
LEMMA RowOfIs ==
  ASSUME NEW rs \in Snapshots, NEW id, NEW c \in Nat
  PROVE  /\ (\E i \in DOMAIN rs : rs[i].id = id)
              => RowOf(rs, id, c) \in 0 .. Len(rs) - 1 /\ rs[RowOf(rs, id, c) + 1].id = id
         /\ ~(\E i \in DOMAIN rs : rs[i].id = id) => RowOf(rs, id, c) = c
<1>1. CASE \E i \in DOMAIN rs : rs[i].id = id
  <2> DEFINE k == CHOOSE i \in DOMAIN rs : rs[i].id = id
  <2>1. k \in 1 .. Len(rs) /\ rs[k].id = id
    BY <1>1, SnapshotIs
  <2>2. RowOf(rs, id, c) = k - 1
    BY <1>1 DEF RowOf
  <2>3. k - 1 \in 0 .. Len(rs) - 1 /\ (k - 1) + 1 = k
    BY <2>1, SnapshotIs
  <2> QED BY <1>1, <2>1, <2>2, <2>3
<1> QED BY <1>1 DEF RowOf

\* New rings are empty, and the panel takes the generation of the ring it reads.
LEMMA RefreshedIs ==
  ASSUME NEW gs, RingsKnown(gs), NEW id \in Ids \cup {NoId}, panel \in Panels, Refreshed(gs, id)
  PROVE  RingsKnown(gens') /\ panel' \in Panels
<1>1. RingsKnown(gens') /\ (id # NoId => id \in DOMAIN gens')
  BY OrderIs DEF Refreshed, RingsKnown, With
<1>2. CASE panel' = panel
  BY <1>1, <1>2
<1>3. CASE panel' = [id |-> id, gen |-> gens'[id]] /\ id # NoId
  BY <1>1, <1>3 DEF RingsKnown, Panels
<1> QED BY <1>1, <1>2, <1>3 DEF Refreshed
-----------------------------------------------------------------------------
\* At the start there are no rows and nothing is chosen.
LEMMA SidebarInit == Init => SidebarInv
<1> SUFFICES ASSUME Init PROVE SidebarInv
  OBVIOUS
<1>1. <<>> \in Snapshots
  BY OrderIs DEF Snapshots
<1>2. StoreKnown /\ RingsKnown(gens) /\ panel \in Panels /\ OnRow /\ chosen \in Ids \cup {NoId}
  BY OrderIs DEF Init, StoreKnown, RingsKnown, Panels, OnRow
<1>3. RowsKnown /\ Kept
  BY <1>1 DEF Init, RowsKnown, Ordered, Kept
<1>4. PumpsKnown
  BY <1>1 DEF Init, PumpsKnown, IsPump, Ordered
<1> QED BY <1>2, <1>3, <1>4 DEF SidebarInv

\* A change of the store offers a token and leaves the screen alone.
LEMMA StoreChangeKeeps ==
  ASSUME SidebarInv, NEW s, StoreChanges(s),
         DOMAIN s \subseteq Ids, \A id \in DOMAIN s : s[id] \in States
  PROVE  SidebarInv'
<1>1. /\ store' = s /\ pump' = Notified
      /\ UNCHANGED <<rows, cursor, chosen, gens, panel>>
  BY DEF StoreChanges
<1>2. StoreKnown'
  BY <1>1 DEF StoreKnown
<1>3. PumpsKnown'
  <2>1. ASSUME NEW p \in Pumps PROVE IsPump(Notified[p])
    BY DEF PumpsKnown, SidebarInv, Notified, IsPump
  <2> QED BY <1>1, <2>1 DEF PumpsKnown, IsPump, Ordered, Notified
<1> QED BY <1>1, <1>2, <1>3
       DEF SidebarInv, RowsKnown, RingsKnown, OnRow, Kept, Selected

\* A pump that goes on carries a snapshot.
LEMMA PumpKeeps ==
  ASSUME SidebarInv, NEW p \in Pumps, NEW r, IsPump(r), pump' = [pump EXCEPT ![p] = r],
         UNCHANGED <<store, rows, cursor, chosen, gens, panel>>
  PROVE  SidebarInv'
<1>1. PumpsKnown'
  BY DEF PumpsKnown, SidebarInv
<1> QED BY <1>1 DEF SidebarInv, StoreKnown, RowsKnown, RingsKnown, OnRow, Kept, Selected

\* The heart: new rows, the cursor clamped, then moved to the chosen project's row;
\* only who has chosen none is given the row the cursor is on.
LEMMA DeliveryKeeps ==
  ASSUME SidebarInv, NEW p \in Pumps, HandleRuntimeChanged(p)
  PROVE  SidebarInv'
<1> DEFINE snap == pump[p].snap
           clamped == IF cursor >= Len(snap) /\ snap # <<>> THEN Len(snap) - 1 ELSE cursor
<1>1. /\ rows' = snap /\ cursor' = RowOf(snap, chosen, clamped)
      /\ chosen' = (IF chosen = NoId THEN SelectedIn(snap, clamped) ELSE chosen)
      /\ pump' = [pump EXCEPT ![p] = [pc |-> "waiting", token |-> FALSE, snap |-> <<>>]]
      /\ UNCHANGED <<store, gens, panel>>
  BY DEF HandleRuntimeChanged
<1>2. /\ snap \in Snapshots /\ Ordered(snap) /\ cursor \in 0 .. Len(Order) - 1
      /\ chosen \in Ids \cup {NoId}
  BY DEF SidebarInv, PumpsKnown, IsPump, OnRow
<1>3. /\ clamped \in 0 .. Len(Order) - 1 /\ (snap # <<>> => clamped < Len(snap))
      /\ clamped \in Nat
  BY <1>2, SnapshotIs, OrderIs
<1>4. <<>> \in Snapshots
  BY OrderIs DEF Snapshots
<1>5. PumpsKnown'
  BY <1>1, <1>4 DEF PumpsKnown, SidebarInv, IsPump, Ordered
<1>6. RowsKnown'
  BY <1>1, <1>2 DEF RowsKnown, Ordered
<1>7. CASE \E i \in DOMAIN snap : snap[i].id = chosen
  <2>1. cursor' \in 0 .. Len(snap) - 1 /\ snap[cursor' + 1].id = chosen /\ chosen # NoId
    <3>1. cursor' \in 0 .. Len(snap) - 1 /\ snap[cursor' + 1].id = chosen
      BY <1>1, <1>2, <1>3, <1>7, RowOfIs
    <3>2. chosen \in Ids
      BY <1>2, <1>7, SnapshotIs
    <3> QED BY <3>1, <3>2, OrderIs
  <2>2. chosen' = chosen /\ Selected' = chosen
    BY <1>1, <1>2, <2>1, SnapshotIs DEF Selected, SelectedIn
  <2>3. OnRow'
    BY <1>1, <1>2, <2>1, SnapshotIs, OrderIs DEF OnRow
  <2> QED BY <1>1, <1>2, <1>5, <1>6, <2>2, <2>3 DEF SidebarInv, StoreKnown, RingsKnown, Kept
<1>8. CASE ~(\E i \in DOMAIN snap : snap[i].id = chosen)
  <2>1. cursor' = clamped
    BY <1>1, <1>2, <1>3, <1>8, RowOfIs
  <2>2. OnRow'
    BY <1>1, <1>3, <2>1 DEF OnRow
  <2>3. chosen' \in Ids \cup {NoId}
    BY <1>1, <1>2, <1>3, SelectedIs
  <2>4. Kept'
    BY <1>1, <1>8, <2>1 DEF Kept, Selected
  <2> QED BY <1>1, <1>5, <1>6, <2>2, <2>3, <2>4 DEF SidebarInv, StoreKnown, RingsKnown
<1> QED BY <1>7, <1>8

\* A key chooses the row it moves to, and the panel follows.
LEMMA MoveKeeps ==
  ASSUME SidebarInv, NEW c \in 0 .. Len(Order) - 1, rows # <<>> => c < Len(rows), MovesTo(c)
  PROVE  SidebarInv'
<1>1. c \in Nat /\ rows \in Snapshots /\ UNCHANGED <<store, pump, rows>> /\ cursor' = c
  BY OrderIs DEF SidebarInv, RowsKnown, MovesTo
<1>2. RingsKnown(gens') /\ panel' \in Panels
  BY <1>1, SelectedIs, RefreshedIs DEF MovesTo, SidebarInv
<1>3. chosen' \in Ids \cup {NoId}
  BY <1>1, SelectedIs DEF MovesTo, SidebarInv
<1>4. Kept'
  <2>1. CASE rows = <<>>
    BY <1>1, <2>1, SnapshotIs DEF Kept
  <2>2. CASE rows # <<>>
    <3>1. SelectedIn(rows, c) = rows[c + 1].id /\ rows[c + 1].id \in Ids
      BY <1>1, <2>2, SelectedIs, SnapshotIs
    <3>2. chosen' = SelectedIn(rows, c)
      BY <3>1, OrderIs DEF MovesTo
    <3> QED BY <1>1, <3>2 DEF Kept, Selected
  <2> QED BY <2>1, <2>2
<1>5. OnRow'
  BY <1>1 DEF OnRow
<1> QED BY <1>1, <1>2, <1>3, <1>4, <1>5
       DEF SidebarInv, StoreKnown, PumpsKnown, RowsKnown

\* A tick, a clear and a push touch only the rings and the panel.
LEMMA RingsKeep ==
  ASSUME SidebarInv, RingsKnown(gens'), panel' \in Panels,
         UNCHANGED <<store, pump, rows, cursor, chosen>>
  PROVE  SidebarInv'
  BY DEF SidebarInv, StoreKnown, PumpsKnown, RowsKnown, OnRow, Kept, Selected

\* Every step keeps the invariant.
LEMMA SidebarStep == SidebarInv /\ [Next]_vars => SidebarInv'
<1> SUFFICES ASSUME SidebarInv, [Next]_vars PROVE SidebarInv'
  OBVIOUS
<1>0. /\ rows \in Snapshots /\ cursor \in 0 .. Len(Order) - 1
      /\ rows # <<>> => cursor < Len(rows)
  BY DEF SidebarInv, RowsKnown, OnRow
<1>1. CASE Apply
  <2>1. PICK id \in Ids, st \in States : StoreChanges(With(store, {id}, st))
    BY <1>1 DEF Apply
  <2> QED BY <2>1, StoreChangeKeeps DEF With, SidebarInv, StoreKnown
<1>2. CASE Seed
  <2>1. PICK ids \in SUBSET Ids : StoreChanges(With(store, ids \ DOMAIN store, "idle"))
    BY <1>2 DEF Seed
  <2> QED BY <2>1, StoreChangeKeeps, OrderIs DEF With, SidebarInv, StoreKnown
<1>3. CASE Delete
  <2>1. PICK ids \in SUBSET Ids : StoreChanges(Restrict(store, DOMAIN store \ ids))
    BY <1>3 DEF Delete
  <2> QED BY <2>1, StoreChangeKeeps DEF Restrict, SidebarInv, StoreKnown
<1>4. ASSUME NEW p \in Pumps, PumpTakes(p) PROVE SidebarInv'
  <2>1. IsPump([pump[p] EXCEPT !.pc = "reading", !.token = FALSE])
    BY DEF SidebarInv, PumpsKnown, IsPump
  <2>2. pump' = [pump EXCEPT ![p] = [pump[p] EXCEPT !.pc = "reading", !.token = FALSE]]
    BY <1>4 DEF PumpTakes, SidebarInv, PumpsKnown, IsPump
  <2> QED BY <1>4, <2>1, <2>2, PumpKeeps DEF PumpTakes
<1>5. ASSUME NEW p \in Pumps, PumpReads(p) PROVE SidebarInv'
  <2>1. PICK snap \in Snapshots :
          /\ IsSnapshotOf(snap, store)
          /\ pump' = [pump EXCEPT ![p].pc = "carrying", ![p].snap = snap]
    BY <1>5 DEF PumpReads
  <2>2. IsPump([pump[p] EXCEPT !.pc = "carrying", !.snap = snap])
    BY <2>1 DEF SidebarInv, PumpsKnown, IsPump, IsSnapshotOf, Ordered
  <2>3. pump' = [pump EXCEPT ![p] = [pump[p] EXCEPT !.pc = "carrying", !.snap = snap]]
    BY <2>1 DEF SidebarInv, PumpsKnown, IsPump
  <2> QED BY <1>5, <2>2, <2>3, PumpKeeps DEF PumpReads
<1>6. ASSUME NEW p \in Pumps, HandleRuntimeChanged(p) PROVE SidebarInv'
  BY <1>6, DeliveryKeeps
<1>7. CASE Up
  <2>1. PICK c \in 0 .. Len(Order) - 1 : MovesTo(c) /\ (rows # <<>> => c < Len(rows))
    BY <1>0, <1>7, SnapshotIs, OrderIs DEF Up
  <2> QED BY <2>1, MoveKeeps
<1>8. CASE Down
  <2>1. PICK c \in 0 .. Len(Order) - 1 : MovesTo(c) /\ (rows # <<>> => c < Len(rows))
    BY <1>0, <1>8, SnapshotIs, OrderIs DEF Down
  <2> QED BY <2>1, MoveKeeps
<1>9. CASE QuickJump
  <2>1. PICK c \in 0 .. Len(Order) - 1 : MovesTo(c) /\ (rows # <<>> => c < Len(rows))
    BY <1>0, <1>9, SnapshotIs, OrderIs DEF QuickJump
  <2> QED BY <2>1, MoveKeeps
<1>10. Selected \in Ids \cup {NoId}
  BY <1>0, SelectedIs, OrderIs DEF Selected
<1>11. CASE LogTick
  BY <1>10, <1>11, RefreshedIs, RingsKeep DEF LogTick, SidebarInv
<1>12. CASE ClearBuffer
  <2> DEFINE gs == IF Selected \in DOMAIN gens THEN [gens EXCEPT ![Selected] = @ + 1] ELSE gens
  <2>1. RingsKnown(gs)
    BY <1>12, OrderIs DEF ClearBuffer, RingsKnown, SidebarInv
  <2>2. Refreshed(gs, Selected)
    BY <1>12 DEF ClearBuffer
  <2> QED BY <1>10, <1>12, <2>1, <2>2, RefreshedIs, RingsKeep DEF ClearBuffer, SidebarInv
<1>13. ASSUME NEW id \in Ids, Push(id) PROVE SidebarInv'
  <2>1. RingsKnown(gens')
    BY <1>13, OrderIs DEF Push, With, RingsKnown, SidebarInv
  <2> QED BY <1>13, <2>1, RingsKeep DEF Push, SidebarInv
<1>14. CASE UNCHANGED vars
  BY <1>14, RingsKeep DEF vars, SidebarInv
<1> QED
  BY <1>1, <1>2, <1>3, <1>4, <1>5, <1>6, <1>7, <1>8, <1>9, <1>11, <1>12, <1>13, <1>14 DEF Next

\* Whatever projects appear or go above it, and however the two pumps' snapshots
\* overtake each other: while the chosen project has a row, start, stop and clear
\* act on that one (SetRows, syncSelectedFromStore).
THEOREM SelectionStays == Spec => []SelectionKept
<1>1. SidebarInv => SelectionKept
  <2> SUFFICES ASSUME SidebarInv PROVE SelectionKept
    OBVIOUS
  <2>1. TypeOK
    BY DEF TypeOK, SidebarInv, StoreKnown, PumpsKnown, IsPump, RowsKnown, Ordered, RingsKnown,
           Panels, OnRow
  <2> QED BY <2>1 DEF SelectionKept, SidebarInv, Kept
<1> QED BY <1>1, SidebarInit, SidebarStep, PTL DEF Spec
=============================================================================
