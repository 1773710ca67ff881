---------------------------- MODULE TuiProperties ----------------------------
(***************************************************************************)
(* What the user may rely on at the keyboard.                              *)
(***************************************************************************)
EXTENDS Tui

\* Every variable keeps to its kind.
TypeOK ==
  /\ mode \in Modes /\ shown \subseteq Overlays
  /\ (attach.open \/ attach = Detached) /\ mail \subseteq Kinds
  /\ attach.stale \/ attach.ticks => attach.armed

\* No mode is left without what it routes keys to, whatever messages come late:
\* the attach mode has its session ("should never happen", routing.go:102), log
\* focus its copy mode, an input or a picker its overlay, so that Esc leads out.
ModeHasPane ==
  /\ TypeOK
  /\ mode = "term" => Attached
  /\ mode = "log" => inCopy
  /\ mode \in {"help", "group", "filter", "command"} => mode \in shown

\* A key asks to quit only as the second Ctrl+C in a row: any other key in between,
\* a Ctrl+C sent to an attached child included, disarms it (routeKey).
QuitDeliberate ==
  []["quit" \in mail' \ mail /\ "colonQ" \notin mail \ mail'
       => last = "ctrl+c" /\ last' = "ctrl+c"]_vars

\* An Esc the detector keeps back is never forgotten: a tick that will see it expired is
\* on its way (DetachFlushTickCmd), or the session's end is (handleEmbeddedAttachEnd).
EscDelivered == attach.armed => attach.ticks \/ "ended" \in mail

\* "CheckoutBranchMsg is emitted when the user selects a branch"
\* (branchpicker.go:24), from a list that is shown.
PickerChooses ==
  []["runs" \in mail' \ mail /\ mode = "branch" => "branch" \in shown]_vars
=============================================================================
