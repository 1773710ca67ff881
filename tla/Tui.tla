--------------------------------- MODULE Tui ---------------------------------
(***************************************************************************)
(* Who owns the keyboard (internal/tui): the mode, the overlays, the log   *)
(* panel's copy mode, the embedded attach session with its Esc Esc         *)
(* detector, and the messages on their way to Update.  A command runs in a *)
(* goroutine of its own and its message queues up with the keys: keys      *)
(* typed ahead may come first, and messages come in any order.             *)
(* Toasts, git and the manager's calls leave no trace here but the message *)
(* they end with.  The full-screen attach (AttachRequestMsg) is never      *)
(* asked for in src and is left out.                                       *)
(***************************************************************************)
EXTENDS Naturals, FiniteSets

CONSTANTS
  Keys,       \* the keys in use
  MaxMail     \* bound: messages on their way
ASSUME TuiAssumption == MaxMail \in Nat \ {0}

VARIABLES
  mode,       \* Model.mode
  shown,      \* the overlays that are visible
  inCopy,     \* LogPanel.copyMode
  escArmed,   \* logEscArmedAt, within the window
  quitArmed,  \* quitArmedAt, within the window
  last,       \* the key before, as routeKey took it
  attach,     \* Model.attach
  mail,       \* the messages on their way
  done        \* the program has quit
vars == <<mode, shown, inCopy, escArmed, quitArmed, last, attach, mail, done>>
panes == <<inCopy, escArmed>>

Overlays == {"help", "group", "branch", "filter", "command"}
Modes == Overlays \cup {"normal", "log", "term"}
Detached == [open |-> FALSE, dead |-> FALSE, failed |-> FALSE, watched |-> FALSE,
             armed |-> FALSE, stale |-> FALSE, ticks |-> FALSE]
Attached == attach.open

\* "ends": FilterCommitMsg, FilterCancelMsg, CommandCancelMsg, or a CommandRunMsg that does
\* not quit.  "runs": StartGroupMsg or CheckoutBranchMsg.  "ended": EmbeddedAttachEndedMsg, from
\* a handler or from WatchErrCmd.
Kinds == {"ends", "colonQ", "quit", "branches", "runs", "attach", "started", "ended", "endedWatch"}

Init ==
  /\ mode = "normal" /\ shown = {}
  /\ inCopy = FALSE /\ escArmed = FALSE /\ quitArmed = FALSE /\ last = "other"
  /\ attach = Detached /\ mail = {} /\ done = FALSE
-----------------------------------------------------------------------------
(* Keys.  Post is the message a handler's command will end with.           *)
Post(m) == Cardinality(mail) < MaxMail /\ mail' = mail \cup {m}
PostNothing == UNCHANGED mail
Opens(o) == mode' = o /\ shown' = shown \cup {o}
Closes(o) == mode' = "normal" /\ shown' = shown \ {o}
SameView == UNCHANGED <<mode, shown>>
SamePanes == UNCHANGED panes

\* handleCtrlC: the second within the window asks to quit.
CtrlC ==
  /\ mode # "term"
  /\ IF quitArmed THEN Post("quit") /\ UNCHANGED quitArmed
                  ELSE quitArmed' = TRUE /\ PostNothing
  /\ SameView /\ SamePanes /\ UNCHANGED attach

NormalKey(k) ==
  /\ mode = "normal"
  /\ CASE k = ":" -> Opens("command") /\ SamePanes /\ PostNothing
       [] k = "?" -> Opens("help") /\ SamePanes /\ PostNothing
       [] k = "/" -> Opens("filter") /\ SamePanes /\ PostNothing
       [] k = "g" -> Opens("group") /\ SamePanes /\ PostNothing
       [] k = "b" -> /\ mode' = "branch" /\ UNCHANGED shown
                     /\ Post("branches") /\ SamePanes
       [] k = "a" -> Post("attach") /\ SameView /\ SamePanes
       [] k = "v" -> /\ mode' = "log" /\ inCopy' = TRUE
                     /\ UNCHANGED <<shown, escArmed>> /\ PostNothing
       [] OTHER -> SameView /\ SamePanes /\ PostNothing
  /\ UNCHANGED attach

HelpKey(k) ==
  /\ mode = "help"
  /\ IF k \in {"?", "esc"} THEN Closes("help") ELSE SameView
  /\ SamePanes /\ PostNothing /\ UNCHANGED attach

\* GroupPicker.Update: Enter chooses a group, and does nothing if the list is empty.
GroupKey(k) ==
  /\ mode = "group"
  /\ \/ k = "esc" /\ Closes("group") /\ PostNothing
     \/ k = "enter" /\ Closes("group") /\ Post("runs")
     \/ k # "esc" /\ SameView /\ PostNothing
  /\ SamePanes /\ UNCHANGED attach

\* BranchPicker.Update, shown or not; then the mode drops back if it is hidden.
\* The first Esc may only clear the filter, and Enter find an empty list.
BranchKey(k) ==
  /\ mode = "branch"
  /\ \/ k = "enter" /\ shown' = shown \ {"branch"} /\ Post("runs")
     \/ k = "esc" /\ shown' = shown \ {"branch"} /\ PostNothing
     \/ UNCHANGED shown /\ PostNothing
  /\ mode' = IF "branch" \in shown' THEN mode ELSE "normal"
  /\ SamePanes /\ UNCHANGED attach

\* FilterInput.Update: an expression that does not compile keeps the bar open.
FilterKey(k) ==
  /\ mode = "filter"
  /\ \/ k \in {"esc", "enter"} /\ Closes("filter") /\ Post("ends")
     \/ k # "esc" /\ SameView /\ PostNothing
  /\ SamePanes /\ UNCHANGED attach

CommandKey(k) ==
  /\ mode = "command"
  /\ \/ k \in {"esc", "enter"} /\ Closes("command") /\ Post("ends")
     \/ k = "enter" /\ Closes("command") /\ Post("colonQ")
     \/ k \notin {"esc", "enter"} /\ SameView /\ PostNothing
  /\ SamePanes /\ UNCHANGED attach

\* routeLogFocus: an Esc may only drop a selection or a command half typed; else it arms,
\* then leaves.
LogFocusKey(k) ==
  /\ mode = "log"
  /\ \/ escArmed' = FALSE /\ UNCHANGED <<mode, inCopy>>
     \/ k = "esc" /\ escArmed /\ escArmed' = FALSE /\ mode' = "normal" /\ inCopy' = FALSE
     \/ k = "esc" /\ ~escArmed /\ escArmed' = TRUE /\ UNCHANGED <<mode, inCopy>>
  /\ PostNothing /\ UNCHANGED <<shown, attach>>
-----------------------------------------------------------------------------
(* The attach session.  KeyDetach keeps the first Esc back; a write to a   *)
(* terminal whose child is gone fails.                                     *)
\* Mutant: handshake consumed without DetachFlushTickCmd.
ArmedNoTick(s) == [s EXCEPT !.armed = TRUE, !.stale = FALSE]
Armed(s) == [s EXCEPT !.armed = TRUE, !.stale = FALSE, !.ticks = TRUE]
Disarmed(s) == [s EXCEPT !.armed = FALSE, !.stale = FALSE, !.ticks = FALSE]

\* SendBytes of the Esc kept back: its failure is returned and left for WatchErrCmd.
Flushes(s, rest) ==
  IF attach.dead THEN attach' = [s EXCEPT !.failed = TRUE] /\ mail' = mail \cup {"ended"}
                 ELSE attach' = rest /\ PostNothing

\* SendKey: the drain goroutine writes it, and leaves its failure for WatchErrCmd.
Sent(s) == IF s.dead THEN [s EXCEPT !.failed = TRUE] ELSE s

TermKey(k) ==
  /\ mode = "term" /\ Attached
  /\ CASE k = "paste" -> attach' = Sent(attach) /\ PostNothing
       [] k = "esc" /\ ~attach.armed -> attach' = Armed(attach) /\ PostNothing
       [] k = "esc" /\ attach.armed /\ ~attach.stale ->
            attach' = Disarmed(attach) /\ mail' = mail \cup {"ended"}
       [] k = "esc" /\ attach.armed /\ attach.stale ->
            Flushes([Armed(attach) EXCEPT !.ticks = FALSE], Armed(attach))
       [] k \notin {"paste", "esc"} /\ attach.armed -> Flushes(Disarmed(attach), Sent(Disarmed(attach)))
       [] OTHER -> attach' = Sent(attach) /\ PostNothing
  /\ SameView /\ SamePanes

\* Mutant: an ordinary key does not reset quitArmedAt.
DisarmsNot == UNCHANGED quitArmed

\* routeKey: every key but Ctrl+C disarms the quit; a session gets Ctrl+C too.
Disarms == quitArmed' = FALSE
Key(k) ==
  /\ k \in Keys /\ ~done
  /\ IF k = "ctrl+c" /\ mode # "term" THEN CtrlC /\ last' = "ctrl+c"
     ELSE /\ Disarms /\ last' = "other"
          /\ \/ NormalKey(k) \/ HelpKey(k) \/ GroupKey(k) \/ BranchKey(k) \/ FilterKey(k)
             \/ CommandKey(k) \/ LogFocusKey(k) \/ TermKey(k)
  /\ UNCHANGED done
-----------------------------------------------------------------------------
(* Messages.                                                               *)
Takes(m) == m \in mail /\ ~done /\ mail' = mail \ {m}
TakesAndPosts(m, n) == m \in mail /\ ~done /\ mail' = (mail \ {m}) \cup {n}
SameRest == UNCHANGED <<quitArmed, last>>

\* The mode is set once more, the bar having been closed by its key.
InputEnds ==
  /\ Takes("ends") \/ TakesAndPosts("colonQ", "quit")
  /\ mode' = "normal"
  /\ UNCHANGED <<shown, panes, attach, done>> /\ SameRest

\* branchesLoadedMsg, after git has answered.
BranchesLoaded ==
  /\ Takes("branches")
  /\ shown' = shown \cup {"branch"}
  /\ UNCHANGED <<mode, panes, attach, done>> /\ SameRest

\* The group starts, or git runs; a toast will tell.
RunsCommand ==
  /\ Takes("runs")
  /\ UNCHANGED <<mode, shown, panes, attach, done>> /\ SameRest

\* handleEmbeddedAttachRequest: refused while a session is open, when the store says the
\* process does not run, and by Attach.
AttachRequest ==
  /\ \/ /\ ~Attached /\ TakesAndPosts("attach", "started")
        /\ attach' = [Detached EXCEPT !.open = TRUE] /\ mode' = "term"
     \/ Takes("attach") /\ UNCHANGED <<attach, mode>>
  /\ UNCHANGED <<shown, panes, done>> /\ SameRest

\* EmbeddedAttachStartedMsg starts WatchErrCmd.
AttachStarted ==
  /\ Takes("started")
  /\ attach' = IF Attached THEN [attach EXCEPT !.watched = TRUE] ELSE attach
  /\ UNCHANGED <<mode, shown, panes, done>> /\ SameRest

\* Mutant: the end leaves the mode to the handler that posted it.
AttachEndsInMode(m) ==
  /\ m \in {"ended", "endedWatch"} /\ Takes(m) /\ attach' = Detached /\ UNCHANGED mode
  /\ UNCHANGED <<shown, panes, done>> /\ SameRest
\* handleEmbeddedAttachEnd: Close cancels the session's commands, but WatchErrCmd's
\* select may still take an error that is waiting.
AttachEnds(m) ==
  /\ m \in {"ended", "endedWatch"}
  /\ Takes(m) \/ (attach.watched /\ attach.failed /\ TakesAndPosts(m, "endedWatch"))
  /\ attach' = Detached /\ mode' = "normal"
  /\ UNCHANGED <<shown, panes, done>> /\ SameRest

Quits ==
  /\ Takes("quit") /\ done' = TRUE
  /\ UNCHANGED <<mode, shown, panes, attach>> /\ SameRest

\* handleDetachFlush: the tick is set a little later than the window.
DetachFlush ==
  /\ ~done /\ attach.ticks /\ attach.stale
  /\ Flushes(Disarmed(attach), Disarmed(attach))
  /\ UNCHANGED <<mode, shown, panes, done>> /\ SameRest
-----------------------------------------------------------------------------
(* Elsewhere.                                                              *)
SameKeyboard == UNCHANGED <<mode, shown, inCopy, last, done>>
WatchErr ==
  /\ attach.watched /\ attach.failed /\ ~done
  /\ mail' = mail \cup {"endedWatch"}
  /\ attach' = [attach EXCEPT !.failed = FALSE, !.watched = FALSE]
  /\ SameKeyboard /\ UNCHANGED <<escArmed, quitArmed>>
EscGrowsOld ==
  /\ attach.armed /\ ~attach.stale /\ ~done /\ attach' = [attach EXCEPT !.stale = TRUE]
  /\ SameKeyboard /\ UNCHANGED <<escArmed, quitArmed, mail>>
WindowsPass ==
  /\ (quitArmed \/ escArmed) /\ ~done
  /\ quitArmed' \in {quitArmed, FALSE} /\ escArmed' \in {escArmed, FALSE}
  /\ SameKeyboard /\ UNCHANGED <<attach, mail>>
ChildExits ==
  /\ Attached /\ ~attach.dead /\ ~done /\ attach' = [attach EXCEPT !.dead = TRUE]
  /\ SameKeyboard /\ UNCHANGED <<escArmed, quitArmed, mail>>
-----------------------------------------------------------------------------
Deliver ==
  \/ InputEnds \/ RunsCommand \/ BranchesLoaded \/ AttachRequest \/ AttachStarted
  \/ (\E m \in Kinds : AttachEnds(m)) \/ Quits
Next ==
  \/ \E k \in Keys : Key(k)
  \/ Deliver \/ DetachFlush \/ WatchErr \/ EscGrowsOld \/ WindowsPass \/ ChildExits
Spec == Init /\ [][Next]_vars
=============================================================================
