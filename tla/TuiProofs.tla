------------------------------ MODULE TuiProofs ------------------------------
(***************************************************************************)
(* Theorems about the keyboard (module Tui), for every set of keys and     *)
(* every number of messages under way.                                     *)
(***************************************************************************)
EXTENDS TuiProperties, TLAPS

Session == [open : BOOLEAN, dead : BOOLEAN, failed : BOOLEAN, watched : BOOLEAN,
            armed : BOOLEAN, stale : BOOLEAN, ticks : BOOLEAN]

\* TypeOK with the types of what it takes for granted.
Typing ==
  /\ TypeOK
  /\ attach \in Session
  /\ inCopy \in BOOLEAN /\ escArmed \in BOOLEAN /\ quitArmed \in BOOLEAN
  /\ last \in {"ctrl+c", "other"} /\ done \in BOOLEAN

\* A quit is armed only by the key before.
ArmedByCtrlC == quitArmed => last = "ctrl+c"

Keyboard == Typing /\ ModeHasPane /\ EscDelivered /\ ArmedByCtrlC

\* A detached keyboard has a session that is closed, and no Esc is kept back.
LEMMA NothingAttached ==
  /\ Detached \in Session
  /\ Detached.open = FALSE /\ Detached.dead = FALSE /\ Detached.failed = FALSE
  /\ Detached.watched = FALSE /\ Detached.armed = FALSE /\ Detached.stale = FALSE
  /\ Detached.ticks = FALSE
  BY DEF Detached, Session

\* The session Attach opens: nothing is kept back in it.
LEMMA FreshSession ==
  LET s == [Detached EXCEPT !.open = TRUE]
  IN  s \in Session /\ s.open = TRUE /\ s.armed = FALSE /\ s.stale = FALSE /\ s.ticks = FALSE
  BY DEF Detached, Session

\* What KeyDetach and SendKey make of a session.
LEMMA SessionHelpers ==
  ASSUME NEW s \in Session
  PROVE  /\ Armed(s) \in Session /\ Armed(s).armed = TRUE /\ Armed(s).stale = FALSE
         /\ Armed(s).ticks = TRUE /\ Armed(s).open = s.open
         /\ Disarmed(s) \in Session /\ Disarmed(s).armed = FALSE /\ Disarmed(s).stale = FALSE
         /\ Disarmed(s).ticks = FALSE /\ Disarmed(s).open = s.open
         /\ Sent(s) \in Session /\ Sent(s).armed = s.armed /\ Sent(s).stale = s.stale
         /\ Sent(s).ticks = s.ticks /\ Sent(s).open = s.open
  BY DEF Session, Armed, Disarmed, Sent

\* The Esc Esc whose second comes too late: the first is flushed, without a tick of its own.
LEMMA TickLost ==
  ASSUME NEW t \in Session
  PROVE  LET s == [t EXCEPT !.ticks = FALSE]
         IN  /\ s \in Session /\ s.open = t.open /\ s.armed = t.armed
             /\ s.stale = t.stale /\ s.ticks = FALSE
  BY DEF Session

\* The keyboard starts in order.
LEMMA KeyboardInit == Init => Keyboard
<1> SUFFICES ASSUME Init PROVE Keyboard
  OBVIOUS
<1>1. Typing
  BY NothingAttached DEF Init, Typing, TypeOK, Modes, Overlays, Kinds
<1>2. ModeHasPane
  BY <1>1 DEF Init, Typing, ModeHasPane
<1>3. EscDelivered
  BY NothingAttached DEF Init, EscDelivered
<1>4. ArmedByCtrlC
  BY DEF Init, ArmedByCtrlC
<1> QED BY <1>1, <1>2, <1>3, <1>4 DEF Keyboard

\* A step that leaves the session alone, and no end of it lost, keeps the Esc's promise.
LEMMA SessionKept ==
  ASSUME EscDelivered, UNCHANGED attach, "ended" \in mail => "ended" \in mail'
  PROVE  EscDelivered'
  BY DEF EscDelivered

\* What Post and PostNothing leave in the mail.
LEMMA PostKeeps ==
  ASSUME NEW m \in Kinds, mail \subseteq Kinds, Post(m) \/ PostNothing
  PROVE  mail' \subseteq Kinds /\ mail \subseteq mail'
  BY DEF Post, PostNothing

\* The keys that open an overlay, a mode, or ask for something (handleNormalKey).
LEMMA NormalKeyView ==
  ASSUME Keyboard, NEW k, NormalKey(k)
  PROVE  /\ attach' = attach /\ escArmed' = escArmed /\ inCopy' \in BOOLEAN
         /\ mail' \subseteq Kinds /\ mail \subseteq mail'
         /\ mode' \in Modes /\ shown' \subseteq Overlays
         /\ mode' # "term" /\ (mode' = "log" => inCopy')
         /\ mode' \in {"help", "group", "filter", "command"} => mode' \in shown'
<1>1. /\ attach' = attach /\ mode = "normal" /\ mode \in Modes /\ shown \subseteq Overlays
      /\ mail \subseteq Kinds /\ inCopy \in BOOLEAN
  BY DEF NormalKey, Keyboard, Typing, TypeOK
<1>2. CASE k \in {":", "?", "/", "g"}
  <2>1. PICK o \in {"command", "help", "filter", "group"} : Opens(o) /\ SamePanes /\ PostNothing
    BY <1>2 DEF NormalKey
  <2> QED BY <1>1, <2>1 DEF Opens, SamePanes, panes, PostNothing, Modes, Overlays
<1>3. CASE k = "b"
  <2>1. mode' = "branch" /\ UNCHANGED shown /\ Post("branches") /\ SamePanes
    BY <1>3 DEF NormalKey
  <2> QED BY <1>1, <2>1 DEF SamePanes, panes, Post, Kinds, Modes, Overlays
<1>4. CASE k = "v"
  <2>1. mode' = "log" /\ inCopy' = TRUE /\ UNCHANGED <<shown, escArmed>> /\ PostNothing
    BY <1>4 DEF NormalKey
  <2> QED BY <1>1, <2>1 DEF PostNothing, Modes
<1>5. CASE k \notin {":", "?", "/", "g", "b", "v"}
  <2>1. (Post("attach") \/ PostNothing) /\ SameView /\ SamePanes
    BY <1>5 DEF NormalKey
  <2>2. "attach" \in Kinds
    BY DEF Kinds
  <2> QED BY <1>1, <2>1, <2>2, PostKeeps DEF SameView, SamePanes, panes, Modes
<1> QED BY <1>2, <1>3, <1>4, <1>5

\* The keys of the overlays and of log focus: what they close, they lead out of.
LEMMA OverlayKeyView ==
  ASSUME Keyboard, NEW k,
         HelpKey(k) \/ GroupKey(k) \/ BranchKey(k) \/ FilterKey(k) \/ CommandKey(k) \/ LogFocusKey(k)
  PROVE  /\ attach' = attach /\ inCopy' \in BOOLEAN /\ escArmed' \in BOOLEAN
         /\ mail' \subseteq Kinds /\ mail \subseteq mail'
         /\ mode' \in Modes /\ shown' \subseteq Overlays
         /\ mode' # "term" /\ (mode' = "log" => inCopy')
         /\ mode' \in {"help", "group", "filter", "command"} => mode' \in shown'
<1>1. /\ mode \in Modes /\ shown \subseteq Overlays /\ mail \subseteq Kinds
      /\ inCopy \in BOOLEAN /\ escArmed \in BOOLEAN
      /\ mode = "log" => inCopy
      /\ mode \in {"help", "group", "filter", "command"} => mode \in shown
  BY DEF Keyboard, Typing, TypeOK, ModeHasPane
<1>2. "normal" \in Modes /\ "runs" \in Kinds /\ "ends" \in Kinds /\ "colonQ" \in Kinds
  BY DEF Modes, Kinds
<1>3. CASE HelpKey(k)
  <2>1. (Closes("help") \/ SameView) /\ SamePanes /\ PostNothing /\ UNCHANGED attach /\ mode = "help"
    BY <1>3 DEF HelpKey
  <2> QED BY <1>1, <1>2, <2>1 DEF Closes, SameView, SamePanes, panes, PostNothing
<1>4. CASE GroupKey(k)
  <2>1. /\ (Closes("group") \/ SameView) /\ SamePanes /\ (PostNothing \/ Post("runs"))
        /\ UNCHANGED attach /\ mode = "group"
    BY <1>4 DEF GroupKey
  <2> QED BY <1>1, <1>2, <2>1, PostKeeps DEF Closes, SameView, SamePanes, panes
<1>5. CASE BranchKey(k)
  <2>1. /\ mode' \in {"branch", "normal"} /\ shown' \subseteq shown /\ SamePanes
        /\ (PostNothing \/ Post("runs")) /\ UNCHANGED attach
    BY <1>5 DEF BranchKey
  <2>2. "branch" \in Modes
    BY DEF Modes, Overlays
  <2> QED BY <1>1, <1>2, <2>1, <2>2, PostKeeps DEF SamePanes, panes
<1>6. CASE FilterKey(k)
  <2>1. /\ (Closes("filter") \/ SameView) /\ SamePanes /\ (PostNothing \/ Post("ends"))
        /\ UNCHANGED attach /\ mode = "filter"
    BY <1>6 DEF FilterKey
  <2> QED BY <1>1, <1>2, <2>1, PostKeeps DEF Closes, SameView, SamePanes, panes
<1>7. CASE CommandKey(k)
  <2>1. /\ (Closes("command") \/ SameView) /\ SamePanes
        /\ (PostNothing \/ Post("ends") \/ Post("colonQ")) /\ UNCHANGED attach /\ mode = "command"
    BY <1>7 DEF CommandKey
  <2> QED BY <1>1, <1>2, <2>1, PostKeeps DEF Closes, SameView, SamePanes, panes
<1>8. CASE LogFocusKey(k)
  BY <1>1, <1>2, <1>8 DEF LogFocusKey, PostNothing
<1> QED BY <1>3, <1>4, <1>5, <1>6, <1>7, <1>8

\* What a flush of the Esc kept back does to the session and the mail.
LEMMA FlushKeeps ==
  ASSUME NEW s \in Session, NEW rest \in Session, mail \subseteq Kinds,
         attach \in Session, Flushes(s, rest)
  PROVE  /\ mail' \subseteq Kinds /\ mail \subseteq mail'
         /\ \/ attach' = rest
            \/ /\ "ended" \in mail' /\ attach' \in Session /\ attach'.open = s.open
               /\ attach'.armed = s.armed /\ attach'.stale = s.stale /\ attach'.ticks = s.ticks
<1>1. "ended" \in Kinds
  BY DEF Kinds
<1>2. CASE attach.dead
  BY <1>1, <1>2 DEF Flushes, Session
<1>3. CASE ~attach.dead
  BY <1>3 DEF Flushes, PostNothing
<1> QED BY <1>2, <1>3

\* The keys of an attached session keep it open, and an Esc kept back has its tick,
\* or the session's end is on its way.
LEMMA TermKeySession ==
  ASSUME Keyboard, NEW k, TermKey(k)
  PROVE  /\ attach' \in Session /\ attach'.open = TRUE
         /\ attach'.stale \/ attach'.ticks => attach'.armed
         /\ attach'.armed => attach'.ticks \/ "ended" \in mail'
         /\ mail' \subseteq Kinds
<1>1. /\ attach \in Session /\ attach.open = TRUE /\ mail \subseteq Kinds
      /\ attach.stale \/ attach.ticks => attach.armed
      /\ attach.armed => attach.ticks \/ "ended" \in mail
  BY DEF Keyboard, Typing, TypeOK, EscDelivered, TermKey, Attached, Session
<1>2. "ended" \in Kinds
  BY DEF Kinds
<1>3. CASE k = "paste"
  <2>1. attach' = Sent(attach) /\ PostNothing
    BY <1>3 DEF TermKey
  <2> QED BY <1>1, <2>1, SessionHelpers DEF PostNothing
<1>4. CASE k = "esc" /\ ~attach.armed
  <2>1. attach' = Armed(attach) /\ PostNothing
    BY <1>4 DEF TermKey
  <2> QED BY <1>1, <2>1, SessionHelpers DEF PostNothing
<1>5. CASE k = "esc" /\ attach.armed /\ ~attach.stale
  <2>1. attach' = Disarmed(attach) /\ mail' = mail \cup {"ended"}
    BY <1>5 DEF TermKey
  <2> QED BY <1>1, <1>2, <2>1, SessionHelpers
<1>6. CASE k = "esc" /\ attach.armed /\ attach.stale
  <2> DEFINE s == [Armed(attach) EXCEPT !.ticks = FALSE]
  <2>1. Flushes(s, Armed(attach))
    BY <1>6 DEF TermKey
  <2>2. /\ Armed(attach) \in Session /\ Armed(attach).open = TRUE /\ Armed(attach).armed = TRUE
        /\ Armed(attach).stale = FALSE /\ Armed(attach).ticks = TRUE
    BY <1>1, SessionHelpers
  <2>3. s \in Session /\ s.open = TRUE /\ s.armed = TRUE /\ s.stale = FALSE /\ s.ticks = FALSE
    BY <2>2, TickLost
  <2> HIDE DEF s
  <2>4. /\ mail' \subseteq Kinds
        /\ \/ attach' = Armed(attach)
           \/ /\ "ended" \in mail' /\ attach' \in Session /\ attach'.open = s.open
              /\ attach'.armed = s.armed /\ attach'.stale = s.stale /\ attach'.ticks = s.ticks
    BY <1>1, <2>1, <2>2, <2>3, FlushKeeps
  <2> QED BY <2>2, <2>3, <2>4
<1>7. CASE k \notin {"paste", "esc"} /\ attach.armed
  <2>1. Flushes(Disarmed(attach), Sent(Disarmed(attach)))
    BY <1>7 DEF TermKey
  <2> DEFINE s == Disarmed(attach)
  <2>2. s \in Session /\ s.open = TRUE /\ s.armed = FALSE /\ s.stale = FALSE /\ s.ticks = FALSE
    BY <1>1, SessionHelpers
  <2>3. /\ Sent(s) \in Session /\ Sent(s).open = TRUE /\ Sent(s).armed = FALSE
        /\ Sent(s).stale = FALSE /\ Sent(s).ticks = FALSE
    BY <2>2, SessionHelpers
  <2> HIDE DEF s
  <2>4. /\ mail' \subseteq Kinds
        /\ \/ attach' = Sent(s)
           \/ /\ "ended" \in mail' /\ attach' \in Session /\ attach'.open = s.open
              /\ attach'.armed = s.armed /\ attach'.stale = s.stale /\ attach'.ticks = s.ticks
    BY <1>1, <2>1, <2>2, <2>3, FlushKeeps DEF s
  <2> QED BY <2>2, <2>3, <2>4
<1>8. CASE k \notin {"paste", "esc"} /\ ~attach.armed
  <2>1. attach' = Sent(attach) /\ PostNothing
    BY <1>8 DEF TermKey
  <2> QED BY <1>1, <2>1, SessionHelpers DEF PostNothing
<1> QED BY <1>3, <1>4, <1>5, <1>6, <1>7, <1>8

\* The second Ctrl+C is the only key that leaves a quit armed (handleCtrlC).
LEMMA CtrlCStep ==
  ASSUME Keyboard, CtrlC, last' = "ctrl+c", UNCHANGED done
  PROVE  Keyboard'
<1>1. /\ UNCHANGED <<mode, shown, inCopy, escArmed, attach, done>>
      /\ quitArmed' \in BOOLEAN /\ (Post("quit") \/ PostNothing)
  BY DEF CtrlC, SameView, SamePanes, panes, Keyboard, Typing
<1>2. "quit" \in Kinds /\ mail \subseteq Kinds
  BY DEF Kinds, Keyboard, Typing, TypeOK
<1>3. mail' \subseteq Kinds /\ mail \subseteq mail'
  BY <1>1, <1>2, PostKeeps
<1>4. Typing'
  BY <1>1, <1>3 DEF Keyboard, Typing, TypeOK
<1>5. ModeHasPane'
  BY <1>1, <1>4 DEF Keyboard, Typing, ModeHasPane, Attached
<1>6. EscDelivered'
  BY <1>1, <1>3, SessionKept DEF Keyboard
<1> QED BY <1>4, <1>5, <1>6 DEF Keyboard, ArmedByCtrlC

\* Every key, in the mode that takes it (routeKey).
LEMMA KeyStep ==
  ASSUME Keyboard, NEW k \in Keys, Key(k)
  PROVE  Keyboard'
<1>1. CASE k = "ctrl+c" /\ mode # "term"
  BY <1>1, CtrlCStep DEF Key
<1>2. CASE ~(k = "ctrl+c" /\ mode # "term")
  <2>1. quitArmed' = FALSE /\ last' = "other" /\ UNCHANGED done
    BY <1>2 DEF Key, Disarms
  <2>2. ArmedByCtrlC'
    BY <2>1 DEF ArmedByCtrlC
  <2>3. CASE TermKey(k)
    <3>1. UNCHANGED <<mode, shown, inCopy, escArmed>> /\ mode = "term"
      BY <2>3 DEF TermKey, SameView, SamePanes, panes
    <3>2. /\ attach' \in Session /\ attach'.open = TRUE /\ mail' \subseteq Kinds
          /\ attach'.stale \/ attach'.ticks => attach'.armed
          /\ attach'.armed => attach'.ticks \/ "ended" \in mail'
      BY <2>3, TermKeySession
    <3>3. Typing'
      BY <2>1, <3>1, <3>2 DEF Keyboard, Typing, TypeOK
    <3>4. ModeHasPane'
      BY <3>1, <3>2, <3>3 DEF Typing, ModeHasPane, Attached
    <3>5. EscDelivered'
      BY <3>2 DEF EscDelivered
    <3> QED BY <2>2, <3>3, <3>4, <3>5 DEF Keyboard
  <2>4. CASE NormalKey(k) \/ HelpKey(k) \/ GroupKey(k) \/ BranchKey(k) \/ FilterKey(k)
             \/ CommandKey(k) \/ LogFocusKey(k)
    <3>1. /\ attach' = attach /\ inCopy' \in BOOLEAN /\ escArmed' \in BOOLEAN
          /\ mail' \subseteq Kinds /\ mail \subseteq mail'
          /\ mode' \in Modes /\ shown' \subseteq Overlays
          /\ mode' # "term" /\ (mode' = "log" => inCopy')
          /\ mode' \in {"help", "group", "filter", "command"} => mode' \in shown'
      <4>1. escArmed \in BOOLEAN
        BY DEF Keyboard, Typing
      <4> QED BY <2>4, <4>1, NormalKeyView, OverlayKeyView
    <3>2. Typing'
      BY <2>1, <3>1 DEF Keyboard, Typing, TypeOK
    <3>3. ModeHasPane'
      BY <3>1, <3>2 DEF Typing, ModeHasPane
    <3>4. EscDelivered'
      BY <3>1, SessionKept DEF Keyboard
    <3> QED BY <2>2, <3>2, <3>3, <3>4 DEF Keyboard
  <2> QED BY <1>2, <2>3, <2>4 DEF Key
<1> QED BY <1>1, <1>2

\* A message that leaves the session alone and the mode as it was or normal.
LEMMA QuietMessage ==
  ASSUME Keyboard, mail' \subseteq Kinds, "ended" \in mail => "ended" \in mail',
         UNCHANGED <<inCopy, escArmed, quitArmed, last, attach>>, done' \in BOOLEAN,
         mode' \in {mode, "normal"}, shown' \in {shown, shown \cup {"branch"}}
  PROVE  Keyboard'
<1>1. mode' \in Modes /\ shown' \subseteq Overlays
  BY DEF Keyboard, Typing, TypeOK, Modes, Overlays
<1>2. Typing'
  BY <1>1 DEF Keyboard, Typing, TypeOK
<1>3. ModeHasPane'
  BY <1>2 DEF Keyboard, Typing, ModeHasPane, Attached
<1>4. EscDelivered' /\ ArmedByCtrlC'
  BY SessionKept DEF Keyboard, ArmedByCtrlC
<1> QED BY <1>2, <1>3, <1>4 DEF Keyboard

\* A step that changes the session and the mail only, the mode being left or reset to normal,
\* or put to the attach mode while the session is open.
LEMMA SessionStep ==
  ASSUME Keyboard, mail' \subseteq Kinds, UNCHANGED <<shown, inCopy, escArmed, quitArmed, last, done>>,
         attach' \in Session, attach'.open = TRUE \/ attach' = Detached,
         mode' \in {mode, "normal", "term"}, mode' = "term" => attach'.open,
         attach'.stale \/ attach'.ticks => attach'.armed,
         attach'.armed => attach'.ticks \/ "ended" \in mail'
  PROVE  Keyboard'
<1>1. mode' \in Modes
  BY DEF Keyboard, Typing, TypeOK, Modes
<1>2. Typing'
  BY <1>1 DEF Keyboard, Typing, TypeOK
<1>3. ModeHasPane'
  BY <1>2 DEF Keyboard, Typing, ModeHasPane, Attached
<1>4. EscDelivered' /\ ArmedByCtrlC'
  BY DEF Keyboard, EscDelivered, ArmedByCtrlC
<1> QED BY <1>2, <1>3, <1>4 DEF Keyboard

\* The messages (Update), whatever order they come in.
LEMMA DeliverStep ==
  ASSUME Keyboard, Deliver
  PROVE  Keyboard'
<1>1. /\ mail \subseteq Kinds /\ attach \in Session /\ done \in BOOLEAN
      /\ mode = "term" => attach.open
      /\ attach.open = TRUE \/ attach = Detached
      /\ attach.stale \/ attach.ticks => attach.armed
      /\ attach.armed => attach.ticks \/ "ended" \in mail
  BY DEF Keyboard, Typing, TypeOK, ModeHasPane, EscDelivered, Attached, Session
<1>2. \A m \in Kinds, n \in Kinds : TakesAndPosts(m, n) => mail' \subseteq Kinds
  BY <1>1 DEF TakesAndPosts
<1>3. \A m \in Kinds : Takes(m) => mail' \subseteq Kinds
  BY <1>1 DEF Takes
<1>4. CASE InputEnds
  <2>1. /\ mode' = "normal" /\ UNCHANGED <<shown, inCopy, escArmed, attach, done, quitArmed, last>>
        /\ Takes("ends") \/ TakesAndPosts("colonQ", "quit")
    BY <1>4 DEF InputEnds, SameRest, panes
  <2>2. mail' \subseteq Kinds /\ ("ended" \in mail => "ended" \in mail')
    BY <1>1, <2>1 DEF Takes, TakesAndPosts, Kinds
  <2> QED BY <1>1, <2>1, <2>2, QuietMessage
<1>5. CASE RunsCommand
  <2>1. UNCHANGED <<mode, shown, inCopy, escArmed, attach, done, quitArmed, last>> /\ Takes("runs")
    BY <1>5 DEF RunsCommand, SameRest, panes
  <2>2. mail' \subseteq Kinds /\ ("ended" \in mail => "ended" \in mail')
    BY <1>1, <2>1 DEF Takes
  <2> QED BY <1>1, <2>1, <2>2, QuietMessage
<1>6. CASE BranchesLoaded
  <2>1. /\ UNCHANGED <<mode, inCopy, escArmed, attach, done, quitArmed, last>> /\ Takes("branches")
        /\ shown' = shown \cup {"branch"}
    BY <1>6 DEF BranchesLoaded, SameRest, panes
  <2>2. mail' \subseteq Kinds /\ ("ended" \in mail => "ended" \in mail')
    BY <1>1, <2>1 DEF Takes
  <2> QED BY <1>1, <2>1, <2>2, QuietMessage
<1>7. CASE AttachRequest
  <2>1. UNCHANGED <<shown, inCopy, escArmed, done, quitArmed, last>>
    BY <1>7 DEF AttachRequest, SameRest, panes
  <2>2. CASE TakesAndPosts("attach", "started") /\ attach' = [Detached EXCEPT !.open = TRUE]
                /\ mode' = "term"
    <3>1. "attach" \in Kinds /\ "started" \in Kinds
      BY DEF Kinds
    <3> QED BY <1>2, <2>1, <2>2, <3>1, FreshSession, SessionStep
  <2>3. CASE Takes("attach") /\ UNCHANGED <<attach, mode>>
    <3>1. mail' \subseteq Kinds /\ ("ended" \in mail => "ended" \in mail')
      BY <1>1, <2>3 DEF Takes
    <3> QED BY <1>1, <2>1, <2>3, <3>1, QuietMessage
  <2> QED BY <1>7, <2>2, <2>3 DEF AttachRequest
<1>8. CASE AttachStarted
  <2>1. UNCHANGED <<mode, shown, inCopy, escArmed, done, quitArmed, last>> /\ Takes("started")
    BY <1>8 DEF AttachStarted, SameRest, panes
  <2>2. mail' \subseteq Kinds /\ ("ended" \in mail => "ended" \in mail')
    BY <1>1, <2>1 DEF Takes
  <2>3. /\ attach' \in Session /\ attach'.open = attach.open /\ attach'.stale = attach.stale
        /\ attach'.ticks = attach.ticks /\ attach'.armed = attach.armed
        /\ attach.open \/ attach' = Detached
    BY <1>1, <1>8 DEF AttachStarted, Attached, Session
  <2> QED BY <1>1, <2>1, <2>2, <2>3, SessionStep
<1>9. ASSUME NEW m \in Kinds, AttachEnds(m) PROVE Keyboard'
  <2>1. /\ UNCHANGED <<shown, inCopy, escArmed, done, quitArmed, last>>
        /\ attach' = Detached /\ mode' = "normal"
        /\ Takes(m) \/ TakesAndPosts(m, "endedWatch")
    BY <1>9 DEF AttachEnds, SameRest, panes
  <2>2. "endedWatch" \in Kinds
    BY DEF Kinds
  <2> QED BY <1>2, <1>3, <2>1, <2>2, NothingAttached, SessionStep
<1>10. CASE Quits
  <2>1. /\ UNCHANGED <<mode, shown, inCopy, escArmed, attach, quitArmed, last>> /\ Takes("quit")
        /\ done' = TRUE
    BY <1>10 DEF Quits, SameRest, panes
  <2>2. mail' \subseteq Kinds /\ ("ended" \in mail => "ended" \in mail')
    BY <1>1, <2>1 DEF Takes
  <2> QED BY <1>1, <2>1, <2>2, QuietMessage
<1> QED BY <1>4, <1>5, <1>6, <1>7, <1>8, <1>9, <1>10 DEF Deliver

\* The tick, the session's own goroutines, the clock and the child.
LEMMA ElsewhereStep ==
  ASSUME Keyboard, DetachFlush \/ WatchErr \/ EscGrowsOld \/ WindowsPass \/ ChildExits
  PROVE  Keyboard'
<1>1. /\ mail \subseteq Kinds /\ attach \in Session /\ done \in BOOLEAN
      /\ mode = "term" => attach.open
      /\ attach.open = TRUE \/ attach = Detached
      /\ attach.stale \/ attach.ticks => attach.armed
      /\ attach.armed => attach.ticks \/ "ended" \in mail
  BY DEF Keyboard, Typing, TypeOK, ModeHasPane, EscDelivered, Attached, Session
<1>2. attach.armed \/ attach.watched => attach.open = TRUE
  BY <1>1, NothingAttached
<1>3. CASE DetachFlush
  <2> DEFINE s == Disarmed(attach)
  <2>1. Flushes(s, s) /\ UNCHANGED <<mode, shown, inCopy, escArmed, done, quitArmed, last>>
    BY <1>3 DEF DetachFlush, SameRest, panes
  <2>2. s \in Session /\ s.open = TRUE /\ s.armed = FALSE /\ s.stale = FALSE /\ s.ticks = FALSE
    BY <1>1, <1>2, <1>3, SessionHelpers DEF DetachFlush
  <2> HIDE DEF s
  <2>3. /\ mail' \subseteq Kinds /\ attach' \in Session /\ attach'.open = TRUE
        /\ attach'.armed = FALSE /\ attach'.stale = FALSE /\ attach'.ticks = FALSE
    BY <1>1, <2>1, <2>2, FlushKeeps
  <2> QED BY <1>1, <2>1, <2>3, SessionStep
<1>4. CASE WatchErr
  <2>1. UNCHANGED <<mode, shown, inCopy, escArmed, done, quitArmed, last>>
    BY <1>4 DEF WatchErr, SameKeyboard
  <2>2. /\ attach' \in Session /\ attach'.open = TRUE /\ attach'.stale = attach.stale
        /\ attach'.ticks = attach.ticks /\ attach'.armed = attach.armed
    BY <1>1, <1>2, <1>4 DEF WatchErr, Session
  <2>3. mail' \subseteq Kinds /\ ("ended" \in mail => "ended" \in mail')
    BY <1>1, <1>4 DEF WatchErr, Kinds
  <2> QED BY <1>1, <2>1, <2>2, <2>3, SessionStep
<1>5. CASE EscGrowsOld
  <2>1. UNCHANGED <<mode, shown, inCopy, escArmed, done, quitArmed, last, mail>>
    BY <1>5 DEF EscGrowsOld, SameKeyboard
  <2>2. /\ attach' \in Session /\ attach'.open = TRUE /\ attach'.armed = TRUE
        /\ attach'.ticks = attach.ticks
    BY <1>1, <1>2, <1>5 DEF EscGrowsOld, Session
  <2> QED BY <1>1, <1>5, <2>1, <2>2, SessionStep DEF EscGrowsOld
<1>6. CASE WindowsPass
  <2>1. /\ UNCHANGED <<mode, shown, inCopy, last, done, attach, mail>>
        /\ quitArmed' \in {quitArmed, FALSE} /\ escArmed' \in {escArmed, FALSE}
    BY <1>6 DEF WindowsPass, SameKeyboard
  <2>2. Typing'
    BY <2>1 DEF Keyboard, Typing, TypeOK
  <2>3. ModeHasPane'
    BY <2>1, <2>2 DEF Keyboard, Typing, ModeHasPane, Attached
  <2>4. EscDelivered'
    BY <2>1, SessionKept DEF Keyboard
  <2>5. ArmedByCtrlC'
    <3>1. CASE quitArmed' = quitArmed
      BY <2>1, <3>1 DEF Keyboard, ArmedByCtrlC
    <3>2. CASE quitArmed' = FALSE
      BY <3>2 DEF ArmedByCtrlC
    <3> QED BY <2>1, <3>1, <3>2
  <2> QED BY <2>2, <2>3, <2>4, <2>5 DEF Keyboard
<1>7. CASE ChildExits
  <2>1. UNCHANGED <<mode, shown, inCopy, escArmed, done, quitArmed, last, mail>>
    BY <1>7 DEF ChildExits, SameKeyboard
  <2>2. /\ attach' \in Session /\ attach'.open = TRUE /\ attach'.stale = attach.stale
        /\ attach'.ticks = attach.ticks /\ attach'.armed = attach.armed
    BY <1>1, <1>7 DEF ChildExits, Attached, Session
  <2> QED BY <1>1, <2>1, <2>2, SessionStep
<1> QED BY <1>3, <1>4, <1>5, <1>6, <1>7

\* Every step keeps it in order.
LEMMA KeyboardStep == Keyboard /\ [Next]_vars => Keyboard'
<1> SUFFICES ASSUME Keyboard, [Next]_vars PROVE Keyboard'
  OBVIOUS
<1>1. CASE UNCHANGED vars
  <2>1. Typing'
    BY <1>1 DEF vars, Keyboard, Typing, TypeOK
  <2>2. ModeHasPane'
    BY <1>1, <2>1 DEF vars, Keyboard, Typing, ModeHasPane, Attached
  <2> QED BY <1>1, <2>1, <2>2 DEF vars, Keyboard, EscDelivered, ArmedByCtrlC
<1>2. CASE Next
  BY <1>2, KeyStep, DeliverStep, ElsewhereStep DEF Next
<1> QED BY <1>1, <1>2

\* The keyboard's invariant: every mode with its pane, every Esc kept back with its tick, a
\* quit armed by a Ctrl+C and nothing after it.
THEOREM KeyboardKept == Spec => []Keyboard
<1>1. Init => Keyboard
  BY KeyboardInit
<1>2. Keyboard /\ [Next]_vars => Keyboard'
  BY KeyboardStep
<1> QED BY <1>1, <1>2, PTL DEF Spec

\* No mode is ever left without what it routes keys to (routeKey, handleEmbeddedAttachEnd),
\* however the messages and the keys interleave.
THEOREM ModesHavePanes == Spec => []ModeHasPane
<1>1. Keyboard => ModeHasPane
  BY DEF Keyboard
<1> QED BY <1>1, KeyboardKept, PTL

\* An Esc the detector keeps back is always on the way to the child or to the session's end
\* (KeyDetach, handleDetachFlush).
THEOREM EscsDelivered == Spec => []EscDelivered
<1>1. Keyboard => EscDelivered
  BY DEF Keyboard
<1> QED BY <1>1, KeyboardKept, PTL

\* A key asks to quit only as the second Ctrl+C in a row (handleCtrlC, routeKey); the other
\* way out is the :q of the command line.
LEMMA QuitStep ==
  ASSUME Keyboard, [Next]_vars, "quit" \in mail' \ mail, "colonQ" \notin mail \ mail'
  PROVE  last = "ctrl+c" /\ last' = "ctrl+c"
<1>1. Next
  BY DEF vars
<1>2. \A m \in Kinds \ {"quit"} : Post(m) \/ PostNothing => FALSE
  BY DEF Post, PostNothing
<1>3. \A s, rest : Flushes(s, rest) => FALSE
  BY DEF Flushes, PostNothing
<1>4. CASE CtrlC /\ last' = "ctrl+c"
  BY <1>4 DEF CtrlC, PostNothing, Keyboard, ArmedByCtrlC
<1>5. ASSUME NEW k, NormalKey(k) PROVE FALSE
  <2>1. Post("branches") \/ Post("attach") \/ PostNothing
    <3>1. CASE k = "b"
      BY <1>5, <3>1 DEF NormalKey
    <3>2. CASE k = "a"
      BY <1>5, <3>2 DEF NormalKey
    <3>3. CASE k \in {":", "?", "/", "g"}
      BY <1>5, <3>3 DEF NormalKey
    <3>4. CASE k = "v"
      BY <1>5, <3>4 DEF NormalKey
    <3>5. CASE k \notin {":", "?", "/", "g", "b", "a", "v"}
      BY <1>5, <3>5 DEF NormalKey
    <3> QED BY <3>1, <3>2, <3>3, <3>4, <3>5
  <2> QED BY <1>2, <2>1 DEF Kinds
<1>6. ASSUME NEW k,
             HelpKey(k) \/ GroupKey(k) \/ BranchKey(k) \/ FilterKey(k) \/ CommandKey(k) \/ LogFocusKey(k)
      PROVE  FALSE
  <2>1. Post("runs") \/ Post("ends") \/ Post("colonQ") \/ PostNothing
    <3>1. CASE HelpKey(k) \/ BranchKey(k) \/ FilterKey(k) \/ LogFocusKey(k) \/ CommandKey(k)
      BY <3>1 DEF HelpKey, BranchKey, FilterKey, LogFocusKey, CommandKey
    <3>2. CASE GroupKey(k)
      BY <3>2 DEF GroupKey
    <3> QED BY <1>6, <3>1, <3>2
  <2> QED BY <1>2, <2>1 DEF Kinds
<1>7. ASSUME NEW k, TermKey(k) PROVE FALSE
  <2>1. CASE PostNothing \/ mail' = mail \cup {"ended"} \/ (\E s, rest : Flushes(s, rest))
    BY <1>3, <2>1 DEF PostNothing
  <2>2. CASE k = "esc" /\ attach.armed
    BY <1>7, <2>1, <2>2 DEF TermKey
  <2>3. CASE ~(k = "esc" /\ attach.armed)
    <3>1. CASE k \notin {"paste", "esc"} /\ attach.armed
      BY <1>7, <2>1, <3>1 DEF TermKey
    <3>2. CASE ~(k \notin {"paste", "esc"} /\ attach.armed)
      <4>1. CASE k = "paste"
        BY <1>7, <2>1, <4>1 DEF TermKey
      <4>2. CASE k = "esc"
        BY <1>7, <2>1, <2>3, <4>2 DEF TermKey
      <4>3. CASE k \notin {"paste", "esc"} /\ ~attach.armed
        BY <1>7, <2>1, <4>3 DEF TermKey
      <4> QED BY <3>2, <4>1, <4>2, <4>3
    <3> QED BY <3>1, <3>2
  <2> QED BY <2>2, <2>3
<1>8. CASE \E k \in Keys : Key(k)
  BY <1>4, <1>5, <1>6, <1>7, <1>8 DEF Key
<1>9. CASE Deliver
  BY <1>9 DEF Deliver, InputEnds, RunsCommand, BranchesLoaded, AttachRequest, AttachStarted,
     AttachEnds, Quits, Takes, TakesAndPosts, Kinds
<1>10. CASE DetachFlush
  BY <1>3, <1>10 DEF DetachFlush
<1>11. CASE WatchErr \/ EscGrowsOld \/ WindowsPass \/ ChildExits
  <2>1. mail' = mail \cup {"endedWatch"} \/ mail' = mail
    <3>1. CASE WatchErr
      BY <3>1 DEF WatchErr
    <3>2. CASE EscGrowsOld
      BY <3>2 DEF EscGrowsOld
    <3>3. CASE WindowsPass
      BY <3>3 DEF WindowsPass
    <3>4. CASE ChildExits
      BY <3>4 DEF ChildExits
    <3> QED BY <1>11, <3>1, <3>2, <3>3, <3>4
  <2> QED BY <2>1
<1> QED BY <1>1, <1>8, <1>9, <1>10, <1>11 DEF Next

\* Nobody quits by a slip of the keyboard (QuitDeliberate).
THEOREM QuitsAreDeliberate == Spec => QuitDeliberate
<1>1. Keyboard /\ [Next]_vars =>
        ["quit" \in mail' \ mail /\ "colonQ" \notin mail \ mail'
           => last = "ctrl+c" /\ last' = "ctrl+c"]_vars
  BY QuitStep
<1> QED BY <1>1, KeyboardKept, PTL DEF Spec, QuitDeliberate
=============================================================================
