----------------------------- MODULE RingBuffer -----------------------------
(***************************************************************************)
(* A ring of Cap lines (internal/log/ringbuffer.go).  Every method holds   *)
(* the ring's lock from end to end; PushMany of fewer than Cap lines is a  *)
(* loop of pushes, one step each here, during which nobody else gets in.   *)
(***************************************************************************)
EXTENDS Naturals, Sequences

CONSTANTS
  Cap,      \* NewRingBuffer raises it to 1
  Values,   \* the lines
  Zero,     \* T's zero value
  MaxMany   \* bound: lines given to PushMany at once
ASSUME RingAssumption == Cap \in Nat \ {0}

VARIABLES
  buf, head, count,   \* the fields of RingBuffer, indexed from 0
  todo                \* what PushMany's loop has still to push
ring == <<buf, head, count, todo>>

Slots == 0 .. Cap - 1
RingInit == buf = [i \in Slots |-> Zero] /\ head = 0 /\ count = 0 /\ todo = <<>>

PutKeepsHead(v) ==
  /\ buf' = [buf EXCEPT ![(head + count) % Cap] = v]
  /\ count' = (IF count < Cap THEN count + 1 ELSE count) /\ UNCHANGED head
\* pushLocked
Put(v) ==
  /\ buf' = [buf EXCEPT ![(head + count) % Cap] = v]
  /\ IF count < Cap THEN count' = count + 1 /\ head' = head
                    ELSE count' = count /\ head' = (head + 1) % Cap

Push(v) == todo = <<>> /\ Put(v) /\ UNCHANGED todo

\* As many lines as there are slots, or more: the last Cap of them replace everything.
PushOver(vs) ==
  /\ todo = <<>> /\ Len(vs) >= Cap
  /\ buf' = [i \in Slots |-> vs[Len(vs) - Cap + i + 1]]
  /\ head' = 0 /\ count' = Cap
  /\ UNCHANGED todo
PushMany(vs) == todo = <<>> /\ vs # <<>> /\ Len(vs) < Cap /\ todo' = vs /\ UNCHANGED <<buf, head, count>>
PushNext == todo # <<>> /\ Put(Head(todo)) /\ todo' = Tail(todo)

Clear ==
  /\ todo = <<>>
  /\ buf' = [i \in Slots |-> Zero] /\ head' = 0 /\ count' = 0
  /\ UNCHANGED todo

\* Snapshot
Snapshot == [i \in 1 .. count |-> buf[(head + i - 1) % Cap]]

Batches == UNION {[1 .. n -> Values] : n \in 0 .. MaxMany}
RingNext ==
  \/ \E v \in Values : Push(v)
  \/ \E vs \in Batches : PushOver(vs) \/ PushMany(vs)
  \/ PushNext \/ Clear
RingSpec == RingInit /\ [][RingNext]_ring

\* The fields keep to the ring's slots, and the slots from head on that count
\* takes in hold lines (pushLocked, Clear).
RingTypeOK ==
  /\ buf \in [Slots -> Values \cup {Zero}] /\ head \in Slots /\ count \in 0 .. Cap
  /\ todo \in Seq(Values)
  /\ \A i \in 1 .. count : buf[(head + i - 1) % Cap] \in Values

\* The ring implements the tail of what was pushed, whatever wraps and evicts.
T == INSTANCE LogTail WITH tail <- Snapshot
KeepsTail == T!TailSpec
=============================================================================
