---------------------------- MODULE ChildProofs ----------------------------
(***************************************************************************)
(* Theorems about module Child, for every set of callers, every restart    *)
(* policy and every bound.                                                 *)
(***************************************************************************)
EXTENDS ChildProperties, FiniteSetTheorems, TLAPS

\* An incarnation has a reason to have ended before it acts on it.
WhyKnown == \A i \in Inc : pc[i] \in {"runClear", "runSet", "runReturn"} => why[i] # "none"

\* Stop goes on past cancel() only if it has read a process.
HeldKnown ==
  \A c \in Callers : pc[c] \in {"stopSet", "stopSignal", "stopWait"} => held[c].cmd # 0

\* The labels of a Start that holds a claimed incarnation.
ClaimPcs == {"startCtx", "startSpawn", "startPublish", "startRunning", "startLaunch"}

OwnKnown == \A t \in Threads : pc[t] \in ClaimPcs => own[t] # 0

Typing == TypeOK /\ WhyKnown /\ HeldKnown /\ OwnKnown

-----------------------------------------------------------------------------
\* The labels named in the steps are labels.
LEMMA LabelsAre ==
  /\ "ready" \in Labels /\ "stopRead" \in Labels /\ "stopCancel" \in Labels
  /\ "stopSet" \in Labels /\ "stopSignal" \in Labels /\ "stopWait" \in Labels
  /\ "restartSleep" \in Labels /\ "restartIdle" \in Labels /\ "startEnter" \in Labels
  /\ "startCtx" \in Labels /\ "startSpawn" \in Labels /\ "startPublish" \in Labels
  /\ "startRunning" \in Labels /\ "startLaunch" \in Labels /\ "startAbort" \in Labels
  /\ "runEnter" \in Labels /\ "runRead" \in Labels /\ "runExited" \in Labels
  /\ "runPolicy" \in Labels /\ "runClear" \in Labels /\ "runSet" \in Labels
  /\ "runReturn" \in Labels /\ "runRestarting" \in Labels /\ "runAnnounce" \in Labels
  /\ "runBackoff" \in Labels /\ "runRespawn" \in Labels /\ "runRefused" \in Labels
  /\ "runCrashed" \in Labels /\ "runRespawned" \in Labels /\ "none" \in Labels
  /\ "done" \in Labels
  BY DEF Labels, CallerPcs, StartPcs, RunPcs

\* Incarnations are integers other than 0 (nil), and no caller is one.
LEMMA IncIs ==
  /\ 0 \notin Inc /\ Inc \subseteq Int
  /\ Callers \cap Inc = {} /\ Inc \subseteq Threads /\ Callers \subseteq Threads
  /\ \A t \in Threads : t \notin Callers => t \in Inc
  BY ChildAssumption DEF Inc, Threads, ChildAssumption

\* A child that was just made is typed.
LEMMA TypingInit == Init => Typing
<1> SUFFICES ASSUME Init PROVE Typing
  OBVIOUS
<1> USE LabelsAre, IncIs DEF Init
<1>1. PolicyTypeOK
  BY PolicyAssumption DEF PolicyInit, PolicyTypeOK, PolicyAssumption
<1>2. pc \in [Threads -> Labels] /\ own \in [Threads -> Inc \cup {0}]
  OBVIOUS
<1>3. held \in [Callers -> [cmd : Inc \cup {0}, cancel : Inc \cup {0}]]
  OBVIOUS
<1>4. spawns \in 0 .. MaxSpawns /\ calls \in 0 .. MaxCalls
  BY ChildAssumption DEF ChildAssumption
<1>5. published \in [state : States, pid : Inc \cup {0}] /\ state \in States
  BY DEF States
<1>6. /\ why \in [Inc -> {"none"} \cup Endings] /\ op \in [Callers -> {"none"} \cup Operations]
      /\ proc \in [Inc -> {"none", "alive", "dead", "reaped"}] /\ code \in [Inc -> {0, 1}]
  OBVIOUS
<1>7. /\ cmd \in Inc \cup {0} /\ waitDone \in Inc \cup {0} /\ cancelFn \in Inc \cup {0}
      /\ closed \subseteq Inc /\ cancelled \subseteq Inc /\ killed \subseteq Inc
      /\ wg \in Int /\ lastCall \in {"none"} \cup Operations
  OBVIOUS
<1>8. stopRequested \in BOOLEAN /\ panicked \in BOOLEAN
  OBVIOUS
<1>9. TypeOK
  BY ONLY <1>1, <1>2, <1>3, <1>4, <1>5, <1>6, <1>7, <1>8 DEF TypeOK
<1> QED
  BY <1>9 DEF Typing, WhyKnown, HeldKnown, OwnKnown, ClaimPcs

\* What a caller's return leaves of the local variables.
LEMMA ReturnTyping ==
  ASSUME Typing, NEW c \in Callers, Return(c)
  PROVE  /\ pc' \in [Threads -> Labels] /\ own' \in [Threads -> Inc \cup {0}]
         /\ op' \in [Callers -> {"none"} \cup Operations]
         /\ held' \in [Callers -> [cmd : Inc \cup {0}, cancel : Inc \cup {0}]]
         /\ pc'[c] = "ready"
         /\ \A t \in Threads \ {c} : pc'[t] = pc[t] /\ own'[t] = own[t]
         /\ \A d \in Callers \ {c} : held'[d] = held[d]
<1> USE LabelsAre, IncIs DEF Typing, TypeOK, Return, Goto
<1>1. pc' \in [Threads -> Labels] /\ own' \in [Threads -> Inc \cup {0}]
  OBVIOUS
<1>2. op' \in [Callers -> {"none"} \cup Operations]
  OBVIOUS
<1>3. held' \in [Callers -> [cmd : Inc \cup {0}, cancel : Inc \cup {0}]]
  OBVIOUS
<1> QED
  BY <1>1, <1>2, <1>3

\* What the end of a Stop leaves of them, be it a Stop or the first half of Restart.
LEMMA StopReturnsTyping ==
  ASSUME Typing, NEW c \in Callers, StopReturns(c)
  PROVE  /\ pc' \in [Threads -> Labels] /\ own' \in [Threads -> Inc \cup {0}]
         /\ op' \in [Callers -> {"none"} \cup Operations]
         /\ held' \in [Callers -> [cmd : Inc \cup {0}, cancel : Inc \cup {0}]]
         /\ pc'[c] \in {"ready", "restartSleep"}
         /\ \A t \in Threads \ {c} : pc'[t] = pc[t] /\ own'[t] = own[t]
         /\ \A d \in Callers \ {c} : held'[d] = held[d]
<1>1. CASE op[c] = "Restart"
  BY <1>1, LabelsAre, IncIs DEF StopReturns, Goto, Typing, TypeOK
<1>2. CASE op[c] # "Restart"
  BY <1>2, ReturnTyping DEF StopReturns
<1> QED
  BY <1>1, <1>2

\* Start, step by step.
LEMMA StartTyping ==
  ASSUME Typing, NEW t \in Threads, StartStep(t)
  PROVE  Typing'
<1> USE LabelsAre, IncIs DEF Typing, TypeOK, WhyKnown, HeldKnown, OwnKnown, ClaimPcs, At, Goto,
        PolicyTypeOK, policyVars, childVars, osVars, localVars, countVars
<1>1. CASE StartEnter(t)
  <2>1. spawns + 1 \in Inc /\ spawns' = spawns + 1 /\ spawns' \in 0 .. MaxSpawns
    BY <1>1, ChildAssumption DEF StartEnter, Inc, ChildAssumption
  <2>2. pc' \in [Threads -> Labels] /\ own' \in [Threads -> Inc \cup {0}]
    BY <1>1, <2>1 DEF StartEnter
  <2>3. state' \in States
    BY <1>1 DEF StartEnter, States
  <2>4. WhyKnown' /\ HeldKnown' /\ OwnKnown'
    BY <1>1, <2>1, <2>2 DEF StartEnter
  <2> QED BY <1>1, <2>1, <2>2, <2>3, <2>4 DEF StartEnter
<1>2. CASE StartRefused(t)
  BY <1>2, ReturnTyping DEF StartRefused
<1>3. CASE StartCtx(t)
  BY <1>3 DEF StartCtx
<1>4. CASE StartSpawn(t)
  BY <1>4 DEF StartSpawn
<1>5. CASE StartSpawnFails(t)
  <2>1. own[t] \in Inc
    BY <1>5 DEF StartSpawnFails
  <2>2. cancelled' \subseteq Inc
    BY <1>5, <2>1 DEF StartSpawnFails
  <2> QED BY <1>5, <2>2 DEF StartSpawnFails, States
<1>6. CASE StartAbort(t)
  <2>0. published' \in [state : States, pid : Inc \cup {0}]
    BY <1>6 DEF StartAbort, Publish, States
  <2>1. CASE t \in Callers
    <3>1. Return(t)
      BY <1>6, <2>1 DEF StartAbort
    <3>2. WhyKnown' /\ HeldKnown' /\ OwnKnown'
      BY <1>6, <2>1, <3>1, ReturnTyping DEF StartAbort
    <3> QED BY <1>6, <2>0, <2>1, <3>1, <3>2, ReturnTyping DEF StartAbort
  <2>2. CASE t \notin Callers
    <3>1. pc' = [pc EXCEPT ![t] = "runRefused"] /\ UNCHANGED <<op, own, held, why>>
      BY <1>6, <2>2 DEF StartAbort
    <3>2. WhyKnown' /\ HeldKnown' /\ OwnKnown'
      BY <2>2, <3>1
    <3> QED BY <1>6, <2>0, <3>1, <3>2 DEF StartAbort
  <2> QED BY <2>1, <2>2
<1>7. CASE StartPublish(t)
  BY <1>7 DEF StartPublish
<1>8. CASE StartRunning(t)
  BY <1>8 DEF StartRunning, States
<1>9. CASE StartLaunch(t)
  <2>1. own[t] \in Inc
    BY <1>9 DEF StartLaunch
  <2>2. pc' \in [Threads -> Labels] /\ own' \in [Threads -> Inc \cup {0}]
    BY <1>9, <2>1 DEF StartLaunch
  <2>3. /\ op' \in [Callers -> {"none"} \cup Operations]
        /\ held' \in [Callers -> [cmd : Inc \cup {0}, cancel : Inc \cup {0}]]
    BY <1>9 DEF StartLaunch
  <2>4. WhyKnown' /\ HeldKnown' /\ OwnKnown'
    BY <1>9, <2>1, <2>2 DEF StartLaunch
  <2> QED BY <1>9, <2>1, <2>2, <2>3, <2>4 DEF StartLaunch, OnStart, States
<1> QED
  BY <1>1, <1>2, <1>3, <1>4, <1>5, <1>6, <1>7, <1>8, <1>9 DEF StartStep

\* run, step by step.
LEMMA RunTyping ==
  ASSUME Typing, NEW i \in Inc, RunStep(i)
  PROVE  Typing'
<1> USE LabelsAre, IncIs DEF Typing, TypeOK, WhyKnown, HeldKnown, OwnKnown, ClaimPcs, At, Goto,
        PolicyTypeOK, policyVars, childVars, osVars, localVars, countVars
<1>1. CASE RunEnter(i)
  <2>1. CASE cmd = 0
    BY <1>1, <2>1 DEF RunEnter
  <2>2. CASE cmd # 0
    BY <1>1, <2>2 DEF RunEnter
  <2> QED BY <2>1, <2>2
<1>2. CASE RunReap(i)
  <2>1. CASE waitDone \in closed
    BY <1>2, <2>1 DEF RunReap
  <2>2. CASE waitDone \notin closed
    <3>0. closed' = closed \cup ({waitDone} \ {0})
      BY <1>2, <2>2 DEF RunReap
    <3>1. closed' \subseteq Inc
      BY <3>0
    <3>2. pc' \in [Threads -> Labels] /\ pc' = [pc EXCEPT ![i] = "runExited"]
      BY <1>2, <2>2 DEF RunReap
    <3>3. proc' \in [Inc -> {"none", "alive", "dead", "reaped"}]
      BY <1>2 DEF RunReap
    <3> QED BY <1>2, <2>2, <3>1, <3>2, <3>3 DEF RunReap
  <2> QED BY <2>1, <2>2
<1>3. CASE RunExited(i)
  <2>1. CASE stopRequested
    <3>0. /\ why' = [why EXCEPT ![i] = "stopped"] /\ pc' = [pc EXCEPT ![i] = "runClear"]
          /\ published' = [published EXCEPT !.pid = 0]
          /\ UNCHANGED <<policyVars, childVars, osVars, own, held, op, countVars, closed,
                         cancelled, wg, panicked>>
      BY <1>3, <2>1 DEF RunExited, PublishExit
    <3>1. TypeOK'
      BY <3>0 DEF Endings
    <3>2. WhyKnown' /\ HeldKnown' /\ OwnKnown'
      BY <1>3, <2>1 DEF RunExited, PublishExit, Endings
    <3> QED BY <3>1, <3>2
  <2>2. CASE ~stopRequested
    BY <1>3, <2>2 DEF RunExited, PublishExit, Endings
  <2> QED BY <2>1, <2>2
<1>4. CASE RunPolicy(i)
  <2>1. PolicyTypeOK'
    BY <1>4, PolicyAssumption
       DEF RunPolicy, OnExit, StopResetTimer, Decision, PolicyAssumption
  <2>2. CASE Decision(code[own[i]]) = "restart"
    BY <1>4, <2>1, <2>2 DEF RunPolicy
  <2>3. CASE Decision(code[own[i]]) # "restart"
    <3>1. \E e \in Endings \ {"none"} : why' = [why EXCEPT ![i] = e]
      BY <1>4, <2>3 DEF RunPolicy, Endings
    <3> QED BY <1>4, <2>1, <2>3, <3>1 DEF RunPolicy
  <2> QED BY <2>2, <2>3
<1>5. CASE RunClear(i)
  BY <1>5 DEF RunClear
<1>6. CASE RunSet(i)
  BY <1>6 DEF RunSet, FinalState, Endings, States
<1>7. CASE RunReturn(i)
  BY <1>7 DEF RunReturn, Publish, FinalState, Endings, States, Done, PolicyStop,
              StopResetTimer
<1>8. CASE RunRestarting(i)
  BY <1>8 DEF RunRestarting, States
<1>9. CASE RunAnnounce(i)
  BY <1>9 DEF RunAnnounce, Publish, States
<1>10. CASE RunBackoffCancelled(i)
  BY <1>10 DEF RunBackoffCancelled, Endings
<1>11. CASE RunBackoffElapsed(i)
  BY <1>11 DEF RunBackoffElapsed
<1>12. CASE RunRespawn(i)
  BY <1>12 DEF RunRespawn, States
<1>13. CASE RunRefused(i)
  BY <1>13 DEF RunRefused, States
<1>14. CASE RunRespawned(i)
  BY <1>14 DEF RunRespawned, Done, Publish, States
<1> QED
  BY <1>1, <1>2, <1>3, <1>4, <1>5, <1>6, <1>7, <1>8, <1>9, <1>10, <1>11, <1>12,
     <1>13, <1>14 DEF RunStep

\* Stop and Restart, step by step.
LEMMA StopTyping ==
  ASSUME Typing, NEW c \in Callers, StopStep(c)
  PROVE  Typing'
<1> USE LabelsAre, IncIs DEF Typing, TypeOK, WhyKnown, HeldKnown, OwnKnown, ClaimPcs, At, Goto,
        PolicyTypeOK, policyVars, childVars, osVars, localVars, countVars
<1>1. CASE StopRead(c)
  BY <1>1 DEF StopRead
<1>0. held[c].cmd \in Inc \cup {0} /\ held[c].cancel \in Inc \cup {0}
  OBVIOUS
<1>2. CASE StopCancel(c)
  <2>1. cancelled' \subseteq Inc
    BY <1>0, <1>2 DEF StopCancel
  <2>2. CASE held[c].cmd # 0
    BY <1>2, <2>1, <2>2 DEF StopCancel
  <2>3. CASE held[c].cmd = 0
    <3>1. StopReturns(c)
      BY <1>2, <2>3 DEF StopCancel
    <3>2. WhyKnown' /\ HeldKnown' /\ OwnKnown'
      BY <1>2, <3>1, StopReturnsTyping DEF StopCancel
    <3> QED BY <1>2, <2>1, <3>1, <3>2, StopReturnsTyping DEF StopCancel
  <2> QED BY <2>2, <2>3
<1>3. CASE StopSet(c)
  BY <1>3 DEF StopSet, States
<1>4. CASE StopSignal(c)
  <2>1. CASE proc[held[c].cmd] # "reaped"
    BY <1>4, <2>1 DEF StopSignal, Publish, States
  <2>2. CASE proc[held[c].cmd] = "reaped"
    <3>1. StopReturns(c)
      BY <1>4, <2>2 DEF StopSignal
    <3>2. WhyKnown' /\ HeldKnown' /\ OwnKnown'
      BY <1>4, <3>1, StopReturnsTyping DEF StopSignal
    <3> QED BY <1>4, <3>1, <3>2, StopReturnsTyping DEF StopSignal, Publish, States
  <2> QED BY <2>1, <2>2
<1>5. CASE StopDone(c)
  BY <1>5, StopReturnsTyping DEF StopDone
<1>6. CASE StopGrace(c)
  <2>1. StopReturns(c) /\ killed' \subseteq Inc
    BY <1>0, <1>6 DEF StopGrace
  <2>2. WhyKnown' /\ HeldKnown' /\ OwnKnown'
    BY <1>6, <2>1, StopReturnsTyping DEF StopGrace
  <2> QED BY <1>6, <2>1, <2>2, StopReturnsTyping DEF StopGrace
<1>7. CASE RestartReset(c)
  <2>1. PolicyTypeOK'
    BY <1>7, PolicyAssumption
       DEF RestartReset, ManualRestart, StopResetTimer, PolicyAssumption
  <2> QED BY <1>7, <2>1 DEF RestartReset
<1>8. CASE RestartIdle(c)
  BY <1>8 DEF RestartIdle, States
<1> QED
  BY <1>1, <1>2, <1>3, <1>4, <1>5, <1>6, <1>7, <1>8 DEF StopStep

\* Every step of the child keeps every variable in its type.
LEMMA TypingNext == Typing /\ [Next]_vars => Typing'
<1> SUFFICES ASSUME Typing, [Next]_vars PROVE Typing'
  OBVIOUS
<1> USE LabelsAre, IncIs, PolicyAssumption, ChildAssumption
    DEF Typing, TypeOK, WhyKnown, HeldKnown, OwnKnown, ClaimPcs, At, Goto, PolicyTypeOK, policyVars,
        childVars, osVars, localVars, countVars, PolicyAssumption, ChildAssumption
<1>1. ASSUME NEW c \in Callers, CallStart(c) PROVE Typing'
  BY <1>1 DEF CallStart, Operations
<1>2. ASSUME NEW c \in Callers, NEW o \in {"Stop", "Restart"}, CallStop(c, o)
      PROVE  Typing'
  BY <1>2 DEF CallStop, Operations
<1>3. ASSUME NEW i \in Inc, ProcExits(i) PROVE Typing'
  BY <1>3 DEF ProcExits
<1>4. CASE ResetTimer
  BY <1>4 DEF ResetTimer, TimerExpires, ResetAttempts
<1>5. CASE UNCHANGED vars
  BY <1>5 DEF vars
<1> QED
  BY <1>1, <1>2, <1>3, <1>4, <1>5, StartTyping, RunTyping, StopTyping
     DEF Next, Call

\* The attempt counter never passes MaxAttempts, and every variable keeps its
\* type, whatever the calls, the exits and the timers do.
THEOREM TypeCorrect == Spec => []TypeOK
<1>1. Init => Typing
  BY TypingInit
<1>2. Typing /\ [Next]_vars => Typing'
  BY TypingNext
<1>3. Typing => TypeOK
  BY DEF Typing
<1> QED
  BY <1>1, <1>2, <1>3, PTL DEF Spec

-----------------------------------------------------------------------------
(* The WaitGroup counts the run goroutines.  The counter goes up where a   *)
(* goroutine is launched for a claimed incarnation, so what is needed is   *)
(* that no two Starts ever hold the same claim, and that the claimed       *)
(* incarnation has had no goroutine yet.                                   *)

Claims ==
  /\ \A i \in Inc : i > spawns => pc[i] = "none"
  /\ \A t \in Threads : pc[t] \in ClaimPcs =>
       /\ own[t] <= spawns
       /\ pc[own[t]] = "none"
       /\ \A u \in Threads : pc[u] \in ClaimPcs /\ own[u] = own[t] => u = t

Balance == Typing /\ Claims /\ WgBalance

\* A step of goroutine t that neither launches nor ends a goroutine, and
\* claims nothing new.
Move(t, l) ==
  /\ pc' = [pc EXCEPT ![t] = l]
  /\ pc[t] \notin {"none", "done"} /\ l \notin {"none", "done"}
  /\ l \in ClaimPcs => pc[t] \in ClaimPcs /\ own'[t] = own[t]
  /\ \A u \in Threads \ {t} : own'[u] = own[u]
  /\ spawns' = spawns /\ wg' = wg

Still == UNCHANGED <<pc, own, spawns, wg>>

\* Such a step keeps the claims and the count.
LEMMA MoveKeepsBalance ==
  ASSUME Balance, Typing', NEW t \in Threads, NEW l, Move(t, l)
  PROVE  Balance'
<1>0. pc \in [Threads -> Labels]
  BY DEF Balance, Typing, TypeOK
<1>1. LiveRuns' = LiveRuns
  BY <1>0, IncIs DEF LiveRuns, Move
<1>2. WgBalance'
  BY <1>1 DEF WgBalance, Balance, Move
<1>3. (\A i \in Inc : i > spawns => pc[i] = "none")'
  BY <1>0, IncIs DEF Claims, Balance, Move
<1>4. ASSUME NEW u \in Threads, pc'[u] \in ClaimPcs
      PROVE  /\ pc[u] \in ClaimPcs /\ own'[u] = own[u]
             /\ pc[own[u]] = "none" /\ pc'[own[u]] = "none"
  BY <1>0, <1>4 DEF Claims, Balance, Move
<1>5. (\A u \in Threads : pc[u] \in ClaimPcs =>
         /\ own[u] <= spawns
         /\ pc[own[u]] = "none"
         /\ \A v \in Threads : pc[v] \in ClaimPcs /\ own[v] = own[u] => v = u)'
  BY <1>4 DEF Claims, Balance, Move
<1> QED
  BY <1>2, <1>3, <1>5 DEF Balance, Claims

\* So does one in which no goroutine moves.
LEMMA StillKeepsBalance == Balance /\ Typing' /\ Still => Balance'
  BY DEF Balance, Claims, WgBalance, LiveRuns, Still

\* The one step that claims an incarnation.
LEMMA StartEnterBalance ==
  ASSUME Balance, Typing', NEW t \in Threads, StartEnter(t)
  PROVE  Balance'
<1>0. /\ pc \in [Threads -> Labels] /\ own \in [Threads -> Inc \cup {0}]
      /\ spawns \in Nat /\ spawns' = spawns + 1 /\ wg' = wg
      /\ pc' = [pc EXCEPT ![t] = "startCtx"] /\ own' = [own EXCEPT ![t] = spawns + 1]
      /\ pc[t] = "startEnter" /\ spawns + 1 \in Inc
  BY ChildAssumption DEF Balance, Typing, TypeOK, StartEnter, At, Goto, Inc, ChildAssumption
<1>1. LiveRuns' = LiveRuns
  BY <1>0, IncIs DEF LiveRuns
<1>2. WgBalance'
  BY <1>0, <1>1 DEF WgBalance, Balance
<1>3. (\A i \in Inc : i > spawns => pc[i] = "none")'
  BY <1>0, IncIs DEF Claims, Balance
<1>4. pc'[spawns + 1] = "none"
  BY <1>0, IncIs DEF Claims, Balance
<1>5. ASSUME NEW u \in Threads \ {t}, pc'[u] \in ClaimPcs
      PROVE  /\ own'[u] = own[u] /\ own[u] <= spawns /\ pc[u] \in ClaimPcs
             /\ pc[own[u]] = "none" /\ pc'[own[u]] = "none"
  BY <1>0, <1>5 DEF Claims, Balance
<1>6. ASSUME NEW u \in Threads, pc'[u] \in ClaimPcs
      PROVE  own'[u] <= spawns' /\ pc'[own'[u]] = "none"
  <2>1. CASE u = t
    BY <1>0, <1>4, <2>1, IncIs
  <2>2. CASE u # t
    <3>1. own[u] <= spawns /\ own'[u] = own[u] /\ pc'[own[u]] = "none"
      BY ONLY <1>5, <1>6, <2>2, u \in Threads
    <3>2. own[u] \in Int
      <4>1. own[u] \in Inc \cup {0}
        BY ONLY <1>0, u \in Threads
      <4> QED BY ONLY <4>1, ChildAssumption DEF Inc, ChildAssumption
    <3> QED BY <1>0, <3>1, <3>2
  <2> QED BY <2>1, <2>2
<1>7. ASSUME NEW u \in Threads, pc'[u] \in ClaimPcs,
             NEW v \in Threads, pc'[v] \in ClaimPcs, own'[v] = own'[u]
      PROVE  v = u
  <2>1. CASE u = t \/ v = t
    BY <1>0, <1>5, <1>7, <2>1, IncIs
  <2>2. CASE u # t /\ v # t
    BY <1>0, <1>5, <1>7, <2>2 DEF Claims, Balance
  <2> QED BY <2>1, <2>2
<1> QED
  BY <1>2, <1>3, <1>6, <1>7 DEF Balance, Claims

\* The one step that launches a goroutine, for the claim it gives up.
LEMMA StartLaunchBalance ==
  ASSUME Balance, Typing', NEW t \in Threads, StartLaunch(t)
  PROVE  Balance'
<1> DEFINE j == own[t]
           l == IF t \in Callers THEN "ready" ELSE "runRespawned"
<1>0. /\ pc \in [Threads -> Labels] /\ own \in [Threads -> Inc \cup {0}]
      /\ pc[t] = "startLaunch" /\ j \in Inc /\ j # t /\ pc[j] = "none"
      /\ spawns \in Nat /\ spawns' = spawns /\ wg' = wg + 1 /\ wg \in Int
      /\ own' = [own EXCEPT ![t] = 0]
      /\ pc' = [pc EXCEPT ![t] = l, ![j] = "runEnter"]
  BY IncIs DEF Balance, Typing, TypeOK, OwnKnown, Claims, ClaimPcs, StartLaunch, At,
               countVars
<1>1. LiveRuns' = LiveRuns \cup {j} /\ j \notin LiveRuns
  BY <1>0, IncIs DEF LiveRuns
<1>2. IsFiniteSet(LiveRuns)
  <2>1. IsFiniteSet(Inc)
    BY FS_Interval, ChildAssumption DEF Inc, ChildAssumption
  <2> QED BY <2>1, FS_Subset DEF LiveRuns
<1>3. WgBalance'
  BY <1>0, <1>1, <1>2, FS_AddElement DEF WgBalance, Balance
<1>4. (\A i \in Inc : i > spawns => pc[i] = "none")'
  BY <1>0, IncIs DEF Claims, Balance, ClaimPcs
<1>5. ASSUME NEW u \in Threads, pc'[u] \in ClaimPcs
      PROVE  /\ u # t /\ u # j /\ own'[u] = own[u] /\ own[u] # j /\ pc[u] \in ClaimPcs
             /\ own[u] <= spawns /\ pc[own[u]] = "none" /\ pc'[own[u]] = "none"
  <2>1. u # t /\ u # j /\ pc'[u] = pc[u] /\ own'[u] = own[u] /\ pc[u] \in ClaimPcs
    BY <1>0, <1>5, IncIs DEF ClaimPcs
  <2>2. own[u] <= spawns /\ pc[own[u]] = "none" /\ own[u] # own[t]
    BY <1>0, <2>1 DEF Claims, Balance, ClaimPcs
  <2>3. own[u] # t /\ own[u] # j
    BY <1>0, <2>2
  <2>4. pc'[own[u]] = pc[own[u]]
    <3>1. own[u] \in Inc
      BY <1>0, <2>1 DEF Balance, Typing, OwnKnown
    <3> QED BY <1>0, <2>3, <3>1, IncIs
  <2> QED BY <2>1, <2>2, <2>4
<1>6. (\A u \in Threads : pc[u] \in ClaimPcs =>
         /\ own[u] <= spawns
         /\ pc[own[u]] = "none"
         /\ \A v \in Threads : pc[v] \in ClaimPcs /\ own[v] = own[u] => v = u)'
  <2>1. \A u \in Threads : pc'[u] \in ClaimPcs =>
          /\ pc[u] \in ClaimPcs /\ own'[u] = own[u] /\ pc'[own[u]] = "none"
          /\ own[u] <= spawns
    BY <1>5 DEF Claims, Balance
  <2>2. \A u, v \in Threads :
          pc[u] \in ClaimPcs /\ pc[v] \in ClaimPcs /\ own[v] = own[u] => v = u
    BY DEF Claims, Balance
  <2>3. spawns' = spawns
    BY <1>0
  <2> QED BY ONLY <2>1, <2>2, <2>3
<1> QED
  BY <1>3, <1>4, <1>6 DEF Balance, Claims

\* The step that ends a goroutine.
LEMMA DoneBalance ==
  ASSUME Balance, Typing', NEW i \in Inc, Done(i), pc[i] \in RunPcs, spawns' = spawns
  PROVE  Balance'
<1>0. /\ pc \in [Threads -> Labels] /\ own \in [Threads -> Inc \cup {0}]
      /\ wg' = wg - 1 /\ wg \in Int /\ pc' = [pc EXCEPT ![i] = "done"]
      /\ own' = [own EXCEPT ![i] = 0] /\ pc[i] \notin {"none", "done"}
  BY DEF Balance, Typing, TypeOK, Done, Goto, RunPcs
<1>1. LiveRuns' = LiveRuns \ {i} /\ i \in LiveRuns
  BY <1>0, IncIs DEF LiveRuns
<1>2. IsFiniteSet(LiveRuns)
  <2>1. IsFiniteSet(Inc)
    BY FS_Interval, ChildAssumption DEF Inc, ChildAssumption
  <2> QED BY <2>1, FS_Subset DEF LiveRuns
<1>3. WgBalance'
  BY <1>0, <1>1, <1>2, FS_RemoveElement DEF WgBalance, Balance
<1>4. (\A k \in Inc : k > spawns => pc[k] = "none")'
  BY <1>0, IncIs DEF Claims, Balance
<1>5. ASSUME NEW u \in Threads, pc'[u] \in ClaimPcs
      PROVE  /\ u # i /\ own'[u] = own[u] /\ pc[u] \in ClaimPcs
             /\ pc[own[u]] = "none" /\ pc'[own[u]] = "none"
  BY <1>0, <1>5, IncIs DEF Claims, Balance, ClaimPcs
<1>6. (\A u \in Threads : pc[u] \in ClaimPcs =>
         /\ own[u] <= spawns
         /\ pc[own[u]] = "none"
         /\ \A v \in Threads : pc[v] \in ClaimPcs /\ own[v] = own[u] => v = u)'
  BY <1>0, <1>5 DEF Claims, Balance
<1> QED
  BY <1>3, <1>4, <1>6 DEF Balance, Claims

\* Start, step by step.
LEMMA StartBalance ==
  ASSUME Balance, Typing', NEW t \in Threads, StartStep(t)
  PROVE  Balance'
<1> USE IncIs DEF Balance, Typing, TypeOK, Move, At, Goto, ClaimPcs, childVars, countVars,
        localVars
<1>1. CASE StartEnter(t)
  BY <1>1, StartEnterBalance
<1>2. CASE StartRefused(t)
  <2>1. Move(t, IF t \in Callers THEN "ready" ELSE "runRefused")
    BY <1>2 DEF StartRefused, Return
  <2> QED BY <2>1, MoveKeepsBalance
<1>3. CASE StartCtx(t)
  <2>1. Move(t, "startSpawn")
    BY <1>3 DEF StartCtx
  <2> QED BY <2>1, MoveKeepsBalance
<1>4. CASE StartSpawn(t)
  <2>1. Move(t, "startPublish")
    BY <1>4 DEF StartSpawn
  <2> QED BY <2>1, MoveKeepsBalance
<1>5. CASE StartSpawnFails(t)
  <2>1. Move(t, "startAbort")
    BY <1>5 DEF StartSpawnFails
  <2> QED BY <2>1, MoveKeepsBalance
<1>6. CASE StartAbort(t)
  <2>1. Move(t, IF t \in Callers THEN "ready" ELSE "runRefused")
    BY <1>6 DEF StartAbort, Return
  <2> QED BY <2>1, MoveKeepsBalance
<1>7. CASE StartPublish(t)
  <2>1. Move(t, "startRunning")
    BY <1>7 DEF StartPublish
  <2> QED BY <2>1, MoveKeepsBalance
<1>8. CASE StartRunning(t)
  <2>1. Move(t, "startLaunch")
    BY <1>8 DEF StartRunning
  <2> QED BY <2>1, MoveKeepsBalance
<1>9. CASE StartLaunch(t)
  BY <1>9, StartLaunchBalance
<1> QED
  BY <1>1, <1>2, <1>3, <1>4, <1>5, <1>6, <1>7, <1>8, <1>9 DEF StartStep

\* run, step by step.
LEMMA RunBalance ==
  ASSUME Balance, Typing', NEW i \in Inc, RunStep(i)
  PROVE  Balance'
<1> USE IncIs DEF Balance, Typing, TypeOK, Move, Still, At, Goto, ClaimPcs, childVars,
        countVars, localVars
<1>1. CASE RunEnter(i)
  <2>1. Move(i, "runRead") \/ Still
    BY <1>1 DEF RunEnter
  <2> QED BY <2>1, MoveKeepsBalance, StillKeepsBalance
<1>2. CASE RunReap(i)
  <2>1. Move(i, "runExited") \/ Still
    BY <1>2 DEF RunReap
  <2> QED BY <2>1, MoveKeepsBalance, StillKeepsBalance
<1>3. CASE RunExited(i)
  <2>1. Move(i, "runClear") \/ Move(i, "runPolicy")
    BY <1>3 DEF RunExited
  <2> QED BY <2>1, MoveKeepsBalance
<1>4. CASE RunPolicy(i)
  <2>1. Move(i, "runClear") \/ Move(i, "runRestarting")
    BY <1>4 DEF RunPolicy
  <2> QED BY <2>1, MoveKeepsBalance
<1>5. CASE RunClear(i)
  <2>1. Move(i, "runSet")
    BY <1>5 DEF RunClear
  <2> QED BY <2>1, MoveKeepsBalance
<1>6. CASE RunSet(i)
  <2>1. Move(i, "runReturn")
    BY <1>6 DEF RunSet
  <2> QED BY <2>1, MoveKeepsBalance
<1>7. CASE RunReturn(i)
  <2>1. Done(i) /\ pc[i] \in RunPcs /\ spawns' = spawns
    BY <1>7 DEF RunReturn, RunPcs
  <2> QED BY <2>1, DoneBalance
<1>8. CASE RunRestarting(i)
  <2>1. Move(i, "runAnnounce")
    BY <1>8 DEF RunRestarting
  <2> QED BY <2>1, MoveKeepsBalance
<1>9. CASE RunAnnounce(i)
  <2>1. Move(i, "runBackoff")
    BY <1>9 DEF RunAnnounce
  <2> QED BY <2>1, MoveKeepsBalance
<1>10. CASE RunBackoffCancelled(i)
  <2>1. Move(i, "runClear")
    BY <1>10 DEF RunBackoffCancelled
  <2> QED BY <2>1, MoveKeepsBalance
<1>11. CASE RunBackoffElapsed(i)
  <2>1. Move(i, "runRespawn")
    BY <1>11 DEF RunBackoffElapsed
  <2> QED BY <2>1, MoveKeepsBalance
<1>12. CASE RunRespawn(i)
  <2>1. Move(i, "startEnter")
    BY <1>12 DEF RunRespawn
  <2> QED BY <2>1, MoveKeepsBalance
<1>13. CASE RunRefused(i)
  <2>1. Move(i, "runCrashed")
    BY <1>13 DEF RunRefused
  <2> QED BY <2>1, MoveKeepsBalance
<1>14. CASE RunRespawned(i)
  <2>1. Done(i) /\ pc[i] \in RunPcs /\ spawns' = spawns
    BY <1>14 DEF RunRespawned, RunPcs
  <2> QED BY <2>1, DoneBalance
<1> QED
  BY <1>1, <1>2, <1>3, <1>4, <1>5, <1>6, <1>7, <1>8, <1>9, <1>10, <1>11, <1>12,
     <1>13, <1>14 DEF RunStep

\* Stop and Restart, step by step.
LEMMA StopBalance ==
  ASSUME Balance, Typing', NEW c \in Callers, StopStep(c)
  PROVE  Balance'
<1> USE IncIs DEF Balance, Typing, TypeOK, Move, At, Goto, ClaimPcs, childVars, countVars,
        localVars, StopReturns, Return
<1>1. CASE StopRead(c)
  <2>1. Move(c, "stopCancel")
    BY <1>1 DEF StopRead
  <2> QED BY <2>1, MoveKeepsBalance
<1>2. CASE StopCancel(c)
  <2>1. Move(c, "stopSet") \/ Move(c, "ready") \/ Move(c, "restartSleep")
    BY <1>2 DEF StopCancel
  <2> QED BY <2>1, MoveKeepsBalance
<1>3. CASE StopSet(c)
  <2>1. Move(c, "stopSignal")
    BY <1>3 DEF StopSet
  <2> QED BY <2>1, MoveKeepsBalance
<1>4. CASE StopSignal(c)
  <2>1. Move(c, "stopWait") \/ Move(c, "ready") \/ Move(c, "restartSleep")
    BY <1>4 DEF StopSignal
  <2> QED BY <2>1, MoveKeepsBalance
<1>5. CASE StopDone(c)
  <2>1. Move(c, "ready") \/ Move(c, "restartSleep")
    BY <1>5 DEF StopDone
  <2> QED BY <2>1, MoveKeepsBalance
<1>6. CASE StopGrace(c)
  <2>1. Move(c, "ready") \/ Move(c, "restartSleep")
    BY <1>6 DEF StopGrace
  <2> QED BY <2>1, MoveKeepsBalance
<1>7. CASE RestartReset(c)
  <2>1. Move(c, "restartIdle")
    BY <1>7 DEF RestartReset
  <2> QED BY <2>1, MoveKeepsBalance
<1>8. CASE RestartIdle(c)
  <2>1. Move(c, "startEnter")
    BY <1>8 DEF RestartIdle
  <2> QED BY <2>1, MoveKeepsBalance
<1> QED
  BY <1>1, <1>2, <1>3, <1>4, <1>5, <1>6, <1>7, <1>8 DEF StopStep

\* Nobody has claimed a child that was just made.
LEMMA BalanceInit == Init => Balance
<1> SUFFICES ASSUME Init PROVE Balance
  OBVIOUS
<1>1. LiveRuns = {}
  BY IncIs DEF Init, LiveRuns
<1>2. WgBalance
  BY <1>1, FS_EmptySet DEF WgBalance, Init
<1>3. Claims
  BY IncIs DEF Claims, Init, ClaimPcs
<1> QED BY <1>2, <1>3, TypingInit DEF Balance

\* Every step keeps the balance.
LEMMA BalanceNext == Balance /\ [Next]_vars => Balance'
<1> SUFFICES ASSUME Balance, [Next]_vars PROVE Balance'
  OBVIOUS
<1>1. Typing'
  BY TypingNext DEF Balance
<1> USE IncIs DEF At, Goto, countVars, localVars, childVars
<1>2. ASSUME NEW c \in Callers, CallStart(c) PROVE Balance'
  <2>1. Move(c, "startEnter")
    BY <1>2 DEF Move, CallStart, ClaimPcs
  <2> QED BY <1>1, <2>1, MoveKeepsBalance
<1>3. ASSUME NEW c \in Callers, NEW o \in {"Stop", "Restart"}, CallStop(c, o)
      PROVE  Balance'
  <2>1. Move(c, "stopRead")
    BY <1>3 DEF Move, CallStop, ClaimPcs
  <2> QED BY <1>1, <2>1, MoveKeepsBalance
<1>4. ASSUME NEW i \in Inc, ProcExits(i) PROVE Balance'
  BY <1>1, <1>4, StillKeepsBalance DEF ProcExits, Still
<1>5. CASE ResetTimer
  BY <1>1, <1>5, StillKeepsBalance DEF ResetTimer, Still
<1>6. CASE UNCHANGED vars
  BY <1>1, <1>6, StillKeepsBalance DEF vars, Still
<1> QED
  BY <1>1, <1>2, <1>3, <1>4, <1>5, <1>6, StartBalance, RunBalance, StopBalance
     DEF Next, Call

\* Manager.Close's WaitGroup counts the run goroutines of a child exactly, for
\* every mix of Start, Stop, Restart, exits and automatic restarts.
THEOREM WaitGroupExact == Spec => []WgBalance
<1>1. Balance => WgBalance
  BY DEF Balance
<1> QED
  BY <1>1, BalanceInit, BalanceNext, PTL DEF Spec

-----------------------------------------------------------------------------
(* The restart budget.  Where nothing refills it - no timer, no Restart,   *)
(* no clean exit - the attempts counted are at least the run goroutines    *)
(* that have decided to restart the child, whatever became of them.        *)

Frugal == ResetAfter = 0 /\ "Restart" \notin Ops

Unrefilled ==
  /\ timer = "none" /\ firing = 0
  /\ \A c \in Callers : op[c] # "Restart" /\ pc[c] \notin {"restartSleep", "restartIdle"}

\* A claimed incarnation has no process yet: no process is spawned over another.
Unspawned ==
  /\ \A i \in Inc : i > spawns => proc[i] = "none"
  /\ \A t \in Threads : pc[t] \in {"startCtx", "startSpawn"} => proc[own[t]] = "none"

\* run asks the policy only about a process that was waited for.
Waited ==
  \A i \in Inc : /\ pc[i] \in {"runRead", "runExited", "runPolicy"} => own[i] \in Inc
                 /\ pc[i] \in {"runExited", "runPolicy"} => proc[own[i]] = "reaped"

Deciding == {"runRestarting", "runAnnounce", "runBackoff", "runRespawn"}
Spent == Respawned \cup {i \in Inc : pc[i] \in Deciding}
Failing == \A i \in Inc : proc[i] = "reaped" => code[i] # 0

Budget == Unrefilled /\ Unspawned /\ Waited /\ (Failing => Cardinality(Spent) <= attempts)

\* What an exit code was, once read, it stays.
CodesStay == \A i \in Inc : proc[i] = "reaped" => proc'[i] = "reaped" /\ code'[i] = code[i]

\* The goroutines that have spent can be counted.
LEMMA SpentFinite == IsFiniteSet(Spent) /\ Cardinality(Spent) \in Nat
<1>1. IsFiniteSet(Inc)
  BY ChildAssumption, FS_Interval DEF Inc, ChildAssumption
<1>2. Spent \subseteq Inc
  BY DEF Spent, Respawned
<1> QED
  BY <1>1, <1>2, FS_Subset, FS_CardinalityType

\* A step that decides nothing leaves the budget in balance.
LEMMA NothingSpent ==
  ASSUME Typing', Budget, Unrefilled', Unspawned', Waited', CodesStay,
         Spent' \subseteq Spent, attempts' = attempts
  PROVE  Budget'
<1>1. Failing' => Failing
  BY DEF Failing, CodesStay
<1>2. Cardinality(Spent') <= Cardinality(Spent) /\ Cardinality(Spent') \in Nat
  BY SpentFinite, FS_Subset, FS_CardinalityType
<1>3. attempts \in Int
  BY DEF Typing, TypeOK, PolicyTypeOK
<1> QED
  BY <1>1, <1>2, <1>3, SpentFinite DEF Budget

\* A step of one goroutine that touches neither a process nor the policy and
\* claims nothing.
Pace(t, l) ==
  /\ pc' = [pc EXCEPT ![t] = l]
  /\ \A u \in Threads \ {t} : own'[u] = own[u]
  /\ \A i \in Inc \ {t} : why'[i] = why[i]
  /\ l \in {"startCtx", "startSpawn"} => pc[t] \in {"startCtx", "startSpawn"} /\ own'[t] = own[t]
  /\ l \in {"runExited", "runPolicy"} => pc[t] = "runExited" /\ own'[t] = own[t]
  /\ l = "runRead" => own'[t] \in Inc
  /\ UNCHANGED <<proc, code, spawns, attempts, timer, firing>>

\* A goroutine at label l, whose incarnation ended as e says, has spent an attempt.
Spends(l, e) ==
  \/ l \in StartPcs \cup Deciding \cup {"runRefused", "runCrashed", "runRespawned"}
  \/ l = "done" /\ e = "none"

\* Such a step of a run goroutine keeps the budget, unless it newly spends.
LEMMA RunPaces ==
  ASSUME Typing, Typing', Budget, NEW i \in Inc, NEW l, Pace(i, l), op' = op,
         Spends(l, why'[i]) => Spends(pc[i], why[i])
  PROVE  Budget'
<1> USE IncIs
<1>0. pc \in [Threads -> Labels]
  BY DEF Typing, TypeOK
<1>1. pc'[i] = l /\ \A u \in Threads \ {i} : pc'[u] = pc[u]
  BY <1>0 DEF Pace
<1>2. Unrefilled'
  BY <1>1 DEF Unrefilled, Budget, Pace
<1>3. Unspawned'
  BY <1>1 DEF Unspawned, Budget, Pace
<1>4. Waited'
  BY <1>1 DEF Waited, Budget, Pace
<1>5. \A j \in Inc : j \in Spent' => j \in Spent
  <2> SUFFICES ASSUME NEW j \in Inc, j \in Spent' PROVE j \in Spent
    OBVIOUS
  <2>1. CASE j = i
    BY <1>1, <2>1 DEF Spent, Respawned, Spends
  <2>2. CASE j # i
    <3>1. pc'[j] = pc[j] /\ why'[j] = why[j]
      BY <1>1, <2>2 DEF Pace
    <3> QED BY <3>1 DEF Spent, Respawned
  <2> QED BY <2>1, <2>2
<1>6. Spent' \subseteq Spent
  BY <1>5 DEF Spent, Respawned
<1> QED
  BY <1>2, <1>3, <1>4, <1>6, NothingSpent DEF CodesStay, Pace

\* Such a step of a caller keeps the budget, unless it goes on to restart.
LEMMA CallerPaces ==
  ASSUME Typing, Typing', Budget, NEW c \in Callers, NEW l, Pace(c, l), UNCHANGED why,
         \A d \in Callers \ {c} : op'[d] = op[d], op'[c] # "Restart",
         l \notin {"restartSleep", "restartIdle"}
  PROVE  Budget'
<1> USE IncIs
<1>0. pc \in [Threads -> Labels]
  BY DEF Typing, TypeOK
<1>1. pc'[c] = l /\ \A u \in Threads \ {c} : pc'[u] = pc[u]
  BY <1>0 DEF Pace
<1>2. Unrefilled'
  BY <1>1 DEF Unrefilled, Budget, Pace
<1>3. Unspawned'
  BY <1>1 DEF Unspawned, Budget, Pace
<1>4. Waited'
  BY <1>1 DEF Waited, Budget, Pace
<1>5. \A i \in Inc : pc'[i] = pc[i]
  BY <1>1
<1>6. Spent' \subseteq Spent
  BY <1>5 DEF Spent, Respawned
<1> QED
  BY <1>2, <1>3, <1>4, <1>6, NothingSpent DEF CodesStay, Pace

\* Start, step by step.
LEMMA StartBudget ==
  ASSUME Balance, Typing', Budget, Frugal, NEW t \in Threads, StartStep(t)
  PROVE  Budget'
<1> USE IncIs DEF At, Goto, policyVars, osVars, childVars, localVars, countVars
<1>0. /\ pc \in [Threads -> Labels] /\ own \in [Threads -> Inc \cup {0}]
      /\ proc \in [Inc -> {"none", "alive", "dead", "reaped"}] /\ spawns \in Int
      /\ op \in [Callers -> {"none"} \cup Operations] /\ Typing
      /\ Inc \subseteq Int
  BY DEF Balance, Typing, TypeOK
<1>1. CASE StartEnter(t)
  <2>1. /\ pc' = [pc EXCEPT ![t] = "startCtx"] /\ spawns' = spawns + 1
        /\ own' = [own EXCEPT ![t] = spawns + 1] /\ pc[t] = "startEnter"
        /\ UNCHANGED <<proc, code, attempts, timer, firing, why, op>>
    BY <1>1 DEF StartEnter
  <2>2. spawns + 1 \in Inc
    BY <1>0, <1>1, ChildAssumption
       DEF StartEnter, Inc, ChildAssumption, Balance, Typing, TypeOK
  <2>3. Unrefilled'
    BY <1>0, <2>1 DEF Unrefilled, Budget
  <2>4. Unspawned'
    <3>1. \A i \in Inc : i > spawns' => i > spawns
      BY <1>0, <2>1
    <3>2. proc[spawns + 1] = "none"
      BY <1>0, <2>2 DEF Budget, Unspawned
    <3>3. pc'[t] = "startCtx" /\ own'[t] = spawns + 1
      BY <1>0, <2>1
    <3>4. \A u \in Threads \ {t} : pc'[u] = pc[u] /\ own'[u] = own[u]
      BY <1>0, <2>1
    <3>5. proc' = proc
      BY <2>1
    <3> QED BY <3>1, <3>2, <3>3, <3>4, <3>5 DEF Unspawned, Budget
  <2>5. Waited'
    BY <1>0, <2>1 DEF Waited, Budget
  <2>6. \A i \in Inc : i \in Spent' => i \in Spent
    BY <1>0, <2>1 DEF Spent, Respawned, StartPcs, Deciding
  <2>7. Spent' \subseteq Spent
    BY <2>6 DEF Spent, Respawned
  <2> QED BY <2>1, <2>3, <2>4, <2>5, <2>7, NothingSpent DEF CodesStay
<1>2. CASE StartSpawn(t)
  <2>1. /\ pc' = [pc EXCEPT ![t] = "startPublish"] /\ pc[t] = "startSpawn"
        /\ proc' = [proc EXCEPT ![own[t]] = "alive"]
        /\ UNCHANGED <<own, code, spawns, attempts, timer, firing, why, op>>
    BY <1>2 DEF StartSpawn
  <2>2. own[t] \in Inc /\ proc[own[t]] = "none" /\ own[t] <= spawns
    BY <1>0, <2>1 DEF Balance, Typing, OwnKnown, ClaimPcs, Budget, Unspawned, Claims
  <2>3. Unrefilled'
    BY <1>0, <2>1 DEF Unrefilled, Budget
  <2>4. \A i \in Inc \ {own[t]} : proc'[i] = proc[i]
    BY <1>0, <2>1
  <2>5. \A u \in Threads \ {t} : pc'[u] = pc[u] /\ own'[u] = own[u]
    BY <1>0, <2>1
  <2>6. Unspawned'
    <3>1. \A i \in Inc : i > spawns' => i # own[t]
      BY <1>0, <2>1, <2>2
    <3>2. \A i \in Inc : i > spawns' => proc'[i] = "none"
      BY <2>1, <2>4, <3>1 DEF Unspawned, Budget
    <3>3. pc'[t] = "startPublish"
      BY <1>0, <2>1
    <3>4. ASSUME NEW u \in Threads, pc'[u] \in {"startCtx", "startSpawn"}
          PROVE  proc'[own'[u]] = "none"
      <4>1. u # t
        BY <3>3, <3>4
      <4>2. pc[u] \in {"startCtx", "startSpawn"} /\ own'[u] = own[u]
        BY <2>5, <3>4, <4>1
      <4>3. own[u] # own[t] /\ own[u] \in Inc
        BY <1>0, <2>1, <4>1, <4>2 DEF Balance, Claims, ClaimPcs, Typing, OwnKnown
      <4> QED BY <2>4, <4>2, <4>3 DEF Unspawned, Budget
    <3> QED BY <3>2, <3>4 DEF Unspawned
  <2>7. Waited'
    <3>1. ASSUME NEW i \in Inc, pc'[i] \in {"runRead", "runExited", "runPolicy"}
          PROVE  /\ pc[i] = pc'[i] /\ own'[i] = own[i] /\ own[i] \in Inc
                 /\ pc'[i] \in {"runExited", "runPolicy"} => proc'[own[i]] = "reaped"
      <4>1. i # t
        BY <1>0, <2>1, <3>1
      <4>2. pc[i] = pc'[i] /\ own'[i] = own[i] /\ own[i] \in Inc
        BY <2>5, <3>1, <4>1 DEF Waited, Budget
      <4>3. pc'[i] \in {"runExited", "runPolicy"} => proc[own[i]] = "reaped"
        BY <4>2 DEF Waited, Budget
      <4>4. pc'[i] \in {"runExited", "runPolicy"} => own[i] # own[t]
        BY <2>2, <4>3
      <4> QED BY <2>4, <4>2, <4>3, <4>4
    <3> QED BY <3>1 DEF Waited
  <2>8. CodesStay
    BY <2>1, <2>2, <2>4 DEF CodesStay
  <2>9. \A i \in Inc : i \in Spent' => i \in Spent
    BY <1>0, <2>1 DEF Spent, Respawned, StartPcs, Deciding
  <2>10. Spent' \subseteq Spent
    BY <2>9 DEF Spent, Respawned
  <2> QED BY <2>1, <2>3, <2>6, <2>7, <2>8, <2>10, NothingSpent
<1>3. CASE StartLaunch(t)
  <2>1. own[t] \in Inc /\ pc[own[t]] = "none" /\ pc[t] = "startLaunch"
    BY <1>0, <1>3 DEF StartLaunch, Balance, Typing, OwnKnown, ClaimPcs, Claims
  <2>2. /\ pc'[own[t]] = "runEnter" /\ pc'[t] \in {"ready", "runRespawned"}
        /\ \A u \in Threads \ {t, own[t]} : pc'[u] = pc[u]
    BY <1>0, <1>3, <2>1 DEF StartLaunch
  <2>3. /\ \A u \in Threads \ {t} : own'[u] = own[u]
        /\ UNCHANGED <<proc, code, spawns, why>>
    BY <1>0, <1>3 DEF StartLaunch
  <2>4. timer' = "none" /\ UNCHANGED <<attempts, firing>>
    BY <1>3 DEF StartLaunch, OnStart, Frugal
  <2>5. \A c \in Callers : op'[c] = op[c] \/ op'[c] = "none"
    BY <1>0, <1>3 DEF StartLaunch
  <2>6. Unrefilled'
    BY <2>1, <2>2, <2>4, <2>5 DEF Unrefilled, Budget
  <2>7. Unspawned'
    BY <2>1, <2>2, <2>3 DEF Unspawned, Budget
  <2>8. Waited'
    BY <2>1, <2>2, <2>3 DEF Waited, Budget
  <2>9. \A i \in Inc : i \in Spent' => i \in Spent
    <3>1. t \in Inc => t \in Spent
      BY <2>1 DEF Spent, Respawned, StartPcs
    <3>2. own[t] \notin Spent'
      BY <2>2 DEF Spent, Respawned, StartPcs, Deciding
    <3>3. \A i \in Inc \ {t, own[t]} : pc'[i] = pc[i] /\ why'[i] = why[i]
      BY <2>2, <2>3
    <3>4. \A i \in Inc \ {t, own[t]} : i \in Spent' => i \in Spent
      BY <3>3 DEF Spent, Respawned
    <3> QED BY <3>1, <3>2, <3>4
  <2>10. Spent' \subseteq Spent
    BY <2>9 DEF Spent, Respawned
  <2> QED BY <2>3, <2>4, <2>6, <2>7, <2>8, <2>10, NothingSpent DEF CodesStay
<1>4. CASE \/ StartRefused(t) \/ StartAbort(t) \/ StartCtx(t) \/ StartSpawnFails(t)
           \/ StartPublish(t) \/ StartRunning(t)
  <2>1. CASE t \in Callers
    <3>1. PICK l \in {"ready", "startSpawn", "startAbort", "startRunning", "startLaunch"} :
            Pace(t, l) /\ why' = why /\ op'[t] # "Restart"
            /\ \A d \in Callers \ {t} : op'[d] = op[d]
      <4>1. op[t] # "Restart"
        BY <2>1 DEF Budget, Unrefilled
      <4>2. CASE StartRefused(t) \/ StartAbort(t)
        <5>1. Pace(t, "ready")
          BY <1>0, <2>1, <4>2 DEF StartRefused, StartAbort, Return, Pace
        <5> QED BY <1>0, <2>1, <4>2, <5>1 DEF StartRefused, StartAbort, Return
      <4>3. CASE StartCtx(t)
        <5>1. Pace(t, "startSpawn")
          BY <1>0, <4>3 DEF StartCtx, Pace
        <5> QED BY <4>1, <4>3, <5>1 DEF StartCtx
      <4>4. CASE StartSpawnFails(t)
        <5>1. Pace(t, "startAbort")
          BY <1>0, <4>4 DEF StartSpawnFails, Pace
        <5> QED BY <4>1, <4>4, <5>1 DEF StartSpawnFails
      <4>5. CASE StartPublish(t)
        <5>1. Pace(t, "startRunning")
          BY <1>0, <4>5 DEF StartPublish, Pace
        <5> QED BY <4>1, <4>5, <5>1 DEF StartPublish
      <4>6. CASE StartRunning(t)
        <5>1. Pace(t, "startLaunch")
          BY <1>0, <4>6 DEF StartRunning, Pace
        <5> QED BY <4>1, <4>6, <5>1 DEF StartRunning
      <4> QED BY <1>4, <4>2, <4>3, <4>4, <4>5, <4>6
    <3> QED BY <1>0, <2>1, <3>1, CallerPaces
  <2>2. CASE t \notin Callers
    <3>1. pc[t] \in StartPcs /\ op' = op
      BY <1>4, <2>2 DEF StartRefused, StartAbort, StartCtx, StartSpawnFails, StartPublish,
             StartRunning, StartPcs
    <3>2. PICK l \in Labels : Pace(t, l)
      BY <1>0, <1>4, <2>2, LabelsAre DEF StartRefused, StartAbort, StartCtx, StartSpawnFails,
             StartPublish, StartRunning, Pace
    <3> QED BY <1>0, <2>2, <3>1, <3>2, RunPaces DEF Spends
  <2> QED BY <2>1, <2>2
<1> QED
  BY <1>1, <1>2, <1>3, <1>4 DEF StartStep

\* The one step that spends: the attempt is counted before the label is left,
\* and only a clean exit takes the count back.
LEMMA RunPolicyBudget ==
  ASSUME Balance, Typing', Budget, NEW i \in Inc, RunPolicy(i)
  PROVE  Budget'
<1> USE IncIs DEF At, Goto, policyVars, osVars, childVars, localVars, countVars
<1> DEFINE x == code[own[i]]
<1>0. /\ pc \in [Threads -> Labels] /\ own \in [Threads -> Inc \cup {0}]
      /\ code \in [Inc -> {0, 1}] /\ why \in [Inc -> {"none"} \cup Endings] /\ Typing
      /\ attempts \in Nat
  BY PolicyAssumption DEF Balance, Typing, TypeOK, PolicyTypeOK, PolicyAssumption
<1>1. /\ pc[i] = "runPolicy" /\ own[i] \in Inc /\ proc[own[i]] = "reaped" /\ OnExit(x)
      /\ UNCHANGED <<own, proc, code, op, spawns, firing>>
  BY <1>0 DEF RunPolicy, Waited, Budget, OnExit
<1>2. /\ pc'[i] \in {"runClear", "runRestarting"} /\ \A u \in Threads \ {i} : pc'[u] = pc[u]
      /\ \A j \in Inc \ {i} : why'[j] = why[j]
      /\ pc'[i] = "runRestarting" <=> Decision(x) = "restart"
  BY <1>0 DEF RunPolicy
<1>3. Unrefilled'
  BY <1>1, <1>2 DEF Unrefilled, Budget, OnExit, StopResetTimer
<1>4. Unspawned'
  BY <1>1, <1>2 DEF Unspawned, Budget
<1>5. Waited'
  BY <1>1, <1>2 DEF Waited, Budget
<1>6. \A j \in Inc : j \in Spent' => j \in Spent \/ (j = i /\ pc'[i] = "runRestarting")
  <2>1. \A j \in Inc \ {i} : j \in Spent' => j \in Spent
    BY <1>2 DEF Spent, Respawned
  <2>2. i \in Spent' => pc'[i] = "runRestarting"
    BY <1>2 DEF Spent, Respawned, StartPcs, Deciding
  <2> QED BY <2>1, <2>2
<1>7. Failing' => Failing /\ x # 0
  BY <1>1 DEF Failing
<1>8. CASE Decision(x) = "restart"
  <2>1. Spent' \subseteq Spent \cup {i} /\ i \notin Spent
    BY <1>1, <1>6 DEF Spent, Respawned, StartPcs, Deciding
  <2>2. IsFiniteSet(Spent \cup {i}) /\ Cardinality(Spent \cup {i}) = Cardinality(Spent) + 1
    BY <2>1, SpentFinite, FS_AddElement
  <2>3. Cardinality(Spent') <= Cardinality(Spent) + 1 /\ Cardinality(Spent') \in Nat
    BY <2>1, <2>2, FS_Subset, FS_CardinalityType
  <2>4. x # 0 => attempts' = attempts + 1
    BY <1>1, <1>8 DEF OnExit
  <2> QED BY <1>0, <1>3, <1>4, <1>5, <1>7, <2>3, <2>4, SpentFinite DEF Budget
<1>9. CASE Decision(x) # "restart"
  <2>1. Spent' \subseteq Spent
    BY <1>2, <1>6, <1>9 DEF Spent, Respawned
  <2>2. x # 0 => attempts' = attempts
    BY <1>1, <1>9 DEF OnExit
  <2>3. Cardinality(Spent') <= Cardinality(Spent) /\ Cardinality(Spent') \in Nat
    BY <2>1, SpentFinite, FS_Subset, FS_CardinalityType
  <2> QED BY <1>0, <1>3, <1>4, <1>5, <1>7, <2>2, <2>3, SpentFinite DEF Budget
<1> QED
  BY <1>8, <1>9

\* run, step by step.
LEMMA RunBudget ==
  ASSUME Balance, Typing', Budget, NEW i \in Inc, RunStep(i)
  PROVE  Budget'
<1> USE IncIs DEF At, Goto, policyVars, osVars, childVars, localVars, countVars
<1>0. /\ pc \in [Threads -> Labels] /\ own \in [Threads -> Inc \cup {0}]
      /\ proc \in [Inc -> {"none", "alive", "dead", "reaped"}] /\ code \in [Inc -> {0, 1}]
      /\ why \in [Inc -> {"none"} \cup Endings] /\ cmd \in Inc \cup {0} /\ Typing
  BY DEF Balance, Typing, TypeOK
<1>1. CASE RunReap(i) /\ waitDone \notin closed
  <2>1. /\ pc' = [pc EXCEPT ![i] = "runExited"] /\ pc[i] = "runRead"
        /\ proc[own[i]] \in {"dead", "reaped"} /\ proc' = [proc EXCEPT ![own[i]] = "reaped"]
        /\ UNCHANGED <<own, code, spawns, attempts, timer, firing, why, op>>
    BY <1>1 DEF RunReap
  <2>2. own[i] \in Inc
    BY <2>1 DEF Budget, Waited
  <2>3. /\ proc'[own[i]] = "reaped" /\ \A j \in Inc \ {own[i]} : proc'[j] = proc[j]
        /\ pc'[i] = "runExited" /\ \A u \in Threads \ {i} : pc'[u] = pc[u]
    BY <1>0, <2>1, <2>2
  <2>4. Unrefilled'
    BY <2>1, <2>3 DEF Unrefilled, Budget
  <2>5. Unspawned'
    <3>1. \A j \in Inc : proc[j] = "none" => proc'[j] = "none"
      BY <2>1, <2>3
    <3>2. \A u \in Threads : pc'[u] \in {"startCtx", "startSpawn"}
                             => pc[u] \in {"startCtx", "startSpawn"} /\ own[u] \in Inc
      BY <2>3 DEF Balance, Typing, OwnKnown, ClaimPcs, TypeOK
    <3> QED BY <2>1, <3>1, <3>2 DEF Unspawned, Budget
  <2>6. Waited'
    BY <2>1, <2>2, <2>3 DEF Waited, Budget
  <2>7. \A j \in Inc : j \in Spent' => j \in Spent
    BY <2>1, <2>3 DEF Spent, Respawned, StartPcs, Deciding
  <2>8. Spent' \subseteq Spent
    BY <2>7 DEF Spent, Respawned
  <2> QED BY <2>1, <2>3, <2>4, <2>5, <2>6, <2>8, NothingSpent DEF CodesStay
<1>2. CASE (RunReap(i) /\ waitDone \in closed) \/ (RunEnter(i) /\ cmd = 0)
  <2>1. CASE RunEnter(i) /\ cmd = 0
    BY <2>1, <1>0, NothingSpent DEF RunEnter, Budget, Unrefilled, Unspawned, Waited, Spent,
           Respawned, CodesStay
  <2>2. CASE RunReap(i) /\ waitDone \in closed
    <3>1. /\ pc[i] = "runRead" /\ proc[own[i]] \in {"dead", "reaped"}
          /\ proc' = [proc EXCEPT ![own[i]] = "reaped"]
          /\ UNCHANGED <<pc, own, code, spawns, attempts, timer, firing, why, op>>
      BY <2>2 DEF RunReap
    <3>2. own[i] \in Inc
      BY <3>1 DEF Budget, Waited
    <3>3. \A j \in Inc : /\ proc[j] = "none" => proc'[j] = "none"
                         /\ proc[j] = "reaped" => proc'[j] = "reaped"
      BY <1>0, <3>1, <3>2
    <3>4. \A u \in Threads : pc[u] \in {"startCtx", "startSpawn"} => own[u] \in Inc
      BY DEF Balance, Typing, OwnKnown, ClaimPcs, TypeOK
    <3>5. Unrefilled' /\ Unspawned' /\ Waited'
      BY <3>1, <3>3, <3>4 DEF Unrefilled, Unspawned, Waited, Budget
    <3>6. Spent' \subseteq Spent
      BY <3>1 DEF Spent, Respawned
    <3> QED BY <3>1, <3>3, <3>5, <3>6, NothingSpent DEF CodesStay
  <2> QED BY <1>2, <2>1, <2>2
<1>3. CASE RunEnter(i) /\ cmd # 0
  <2>1. Pace(i, "runRead") /\ op' = op
    BY <1>0, <1>3 DEF RunEnter, Pace
  <2> QED BY <1>0, <2>1, RunPaces DEF Spends, StartPcs, Deciding
<1>4. CASE RunExited(i)
  <2>1. PICK l \in {"runClear", "runPolicy"} : Pace(i, l) /\ op' = op
    <3>1. Pace(i, "runClear") \/ Pace(i, "runPolicy")
      BY <1>0, <1>4 DEF RunExited, Pace
    <3> QED BY <1>4, <3>1 DEF RunExited
  <2> QED BY <1>0, <2>1, RunPaces DEF Spends, StartPcs, Deciding
<1>5. CASE RunClear(i) \/ RunSet(i) \/ RunReturn(i) \/ RunBackoffCancelled(i)
  <2>0. pc[i] \in {"runClear", "runSet", "runReturn"} => why[i] # "none"
    BY DEF Balance, Typing, WhyKnown
  <2>1. CASE RunClear(i)
    <3>1. Pace(i, "runSet") /\ op' = op
      BY <1>0, <2>1 DEF RunClear, Pace
    <3> QED BY <1>0, <3>1, RunPaces DEF Spends, StartPcs, Deciding
  <2>2. CASE RunSet(i)
    <3>1. Pace(i, "runReturn") /\ op' = op
      BY <1>0, <2>2 DEF RunSet, Pace
    <3> QED BY <1>0, <3>1, RunPaces DEF Spends, StartPcs, Deciding
  <2>3. CASE RunReturn(i)
    <3>1. Pace(i, "done") /\ op' = op /\ why' = why /\ why[i] # "none"
      BY <1>0, <2>0, <2>3 DEF RunReturn, Pace, Done, PolicyStop, StopResetTimer, Budget, Unrefilled
    <3> QED BY <1>0, <3>1, RunPaces DEF Spends, StartPcs, Deciding
  <2>4. CASE RunBackoffCancelled(i)
    <3>1. Pace(i, "runClear") /\ op' = op
      BY <1>0, <2>4 DEF RunBackoffCancelled, Pace
    <3> QED BY <1>0, <3>1, RunPaces DEF Spends, StartPcs, Deciding
  <2> QED BY <1>5, <2>1, <2>2, <2>3, <2>4
<1>6. CASE \/ RunRestarting(i) \/ RunAnnounce(i) \/ RunBackoffElapsed(i) \/ RunRespawn(i)
           \/ RunRefused(i) \/ RunRespawned(i)
  <2>1. Spends(pc[i], why[i]) /\ op' = op
    BY <1>6 DEF RunRestarting, RunAnnounce, RunBackoffElapsed, RunRespawn, RunRefused,
           RunRespawned, Spends, Deciding
  <2>2. PICK l \in Labels : Pace(i, l)
    BY <1>0, <1>6, LabelsAre DEF RunRestarting, RunAnnounce, RunBackoffElapsed, RunRespawn,
           RunRefused, RunRespawned, Done, Pace
  <2> QED BY <1>0, <2>1, <2>2, RunPaces
<1>7. CASE RunPolicy(i)
  BY <1>7, RunPolicyBudget
<1> QED
  BY <1>1, <1>2, <1>3, <1>4, <1>5, <1>6, <1>7 DEF RunStep

\* Stop, step by step; nobody is in Restart.
LEMMA StopBudget ==
  ASSUME Balance, Typing', Budget, NEW c \in Callers, StopStep(c)
  PROVE  Budget'
<1> USE IncIs DEF At, Goto, policyVars, osVars, childVars, localVars, countVars
<1>0. /\ pc \in [Threads -> Labels] /\ own \in [Threads -> Inc \cup {0}]
      /\ op \in [Callers -> {"none"} \cup Operations] /\ Typing
      /\ op[c] # "Restart" /\ pc[c] \notin {"restartSleep", "restartIdle"}
  BY DEF Balance, Typing, TypeOK, Budget, Unrefilled
<1>1. StopReturns(c) => Return(c)
  BY <1>0 DEF StopReturns
<1>2. PICK l \in {"ready", "stopCancel", "stopSet", "stopSignal", "stopWait"} :
         /\ pc' = [pc EXCEPT ![c] = l] /\ op'[c] # "Restart"
         /\ UNCHANGED <<proc, code, why, spawns, attempts, timer, firing>>
         /\ \A d \in Callers \ {c} : op'[d] = op[d]
         /\ \A u \in Threads \ {c} : own'[u] = own[u]
  <2>1. CASE StopRead(c)
    BY <1>0, <2>1 DEF StopRead
  <2>2. CASE StopCancel(c)
    BY <1>0, <1>1, <2>2 DEF StopCancel, Return
  <2>3. CASE StopSet(c)
    BY <1>0, <2>3 DEF StopSet
  <2>4. CASE StopSignal(c)
    BY <1>0, <1>1, <2>4 DEF StopSignal, Return
  <2>5. CASE StopDone(c)
    BY <1>0, <1>1, <2>5 DEF StopDone, Return
  <2>6. CASE StopGrace(c)
    BY <1>0, <1>1, <2>6 DEF StopGrace, Return
  <2>7. ~RestartReset(c) /\ ~RestartIdle(c)
    BY <1>0 DEF RestartReset, RestartIdle
  <2> QED BY <2>1, <2>2, <2>3, <2>4, <2>5, <2>6, <2>7 DEF StopStep
<1>3. Pace(c, l)
  BY <1>2 DEF Pace
<1> QED
  BY <1>0, <1>2, <1>3, CallerPaces

\* Every step keeps the budget.
LEMMA BudgetNext == Balance /\ Budget /\ Frugal /\ [Next]_vars => Budget'
<1> SUFFICES ASSUME Balance, Budget, Frugal, [Next]_vars PROVE Budget'
  OBVIOUS
<1>1. Typing' /\ Typing
  BY TypingNext DEF Balance
<1>0. /\ pc \in [Threads -> Labels] /\ op \in [Callers -> {"none"} \cup Operations]
      /\ proc \in [Inc -> {"none", "alive", "dead", "reaped"}] /\ code \in [Inc -> {0, 1}]
  BY <1>1 DEF Typing, TypeOK
<1> USE IncIs DEF At, Goto, policyVars, osVars, childVars, localVars, countVars
<1>2. ASSUME NEW c \in Callers, CallStart(c) PROVE Budget'
  <2>1. Pace(c, "startEnter") /\ op'[c] # "Restart" /\ why' = why
        /\ \A d \in Callers \ {c} : op'[d] = op[d]
    BY <1>0, <1>2 DEF Pace, CallStart
  <2> QED BY <1>1, <2>1, CallerPaces
<1>3. ASSUME NEW c \in Callers, NEW o \in {"Stop", "Restart"}, CallStop(c, o) PROVE Budget'
  <2>1. Pace(c, "stopRead") /\ op'[c] # "Restart" /\ why' = why
        /\ \A d \in Callers \ {c} : op'[d] = op[d]
    BY <1>0, <1>3 DEF Pace, CallStop, Frugal
  <2> QED BY <1>1, <2>1, CallerPaces
<1>4. ASSUME NEW i \in Inc, ProcExits(i) PROVE Budget'
  <2>1. /\ proc[i] = "alive" /\ proc' = [proc EXCEPT ![i] = "dead"]
        /\ UNCHANGED <<pc, own, op, why, spawns, attempts, timer, firing>>
        /\ \E x \in {0, 1} : code' = [code EXCEPT ![i] = x]
    BY <1>4 DEF ProcExits
  <2>2. \A j \in Inc : j # i => proc'[j] = proc[j] /\ code'[j] = code[j]
    BY <1>0, <2>1
  <2>3. CodesStay
    BY <2>1, <2>2 DEF CodesStay
  <2>4. \A u \in Threads : pc[u] \in {"startCtx", "startSpawn"} => own[u] \in Inc
    BY <1>1 DEF Typing, OwnKnown, ClaimPcs, TypeOK
  <2>5. \A j \in Inc : proc[j] \in {"none", "reaped"} => proc'[j] = proc[j]
    BY <2>1, <2>2
  <2>6. Unrefilled' /\ Waited'
    BY <2>1, <2>5 DEF Unrefilled, Waited, Budget
  <2>7. Unspawned'
    BY <2>1, <2>4, <2>5 DEF Unspawned, Budget
  <2>8. Spent' \subseteq Spent
    BY <2>1 DEF Spent, Respawned
  <2> QED BY <1>1, <2>1, <2>3, <2>6, <2>7, <2>8, NothingSpent
<1>5. ~ResetTimer
  BY DEF ResetTimer, TimerExpires, ResetAttempts, Budget, Unrefilled
<1>6. CASE UNCHANGED vars
  BY <1>1, <1>6, NothingSpent DEF vars, Budget, Unrefilled, Unspawned, Waited, Spent,
         Respawned, CodesStay
<1> QED
  BY <1>1, <1>2, <1>3, <1>4, <1>5, <1>6, StartBudget, RunBudget, StopBudget DEF Next, Call

\* Whatever mix of Start and Stop, of crashes, cancelled backoffs and refused
\* Starts: a child whose budget nothing refills respawns at most MaxAttempts times.
THEOREM RestartsBounded == Spec => []RespawnBudget
<1>1. CASE Frugal
  <2>1. Init => Budget
    <3> SUFFICES ASSUME Init PROVE Budget
      OBVIOUS
    <3>1. Spent = {}
      BY IncIs DEF Init, Spent, Respawned, StartPcs, Deciding
    <3>2. Cardinality(Spent) = 0
      BY <3>1, FS_EmptySet
    <3>3. \A t \in Threads : pc[t] \in {"ready", "none"}
      BY DEF Init
    <3>4. Unrefilled /\ Unspawned /\ Waited /\ attempts = 0
      BY <3>3, IncIs DEF Init, PolicyInit, Unrefilled, Unspawned, Waited
    <3> QED BY <3>2, <3>4 DEF Budget
  <2>2. Balance /\ Budget => RespawnBudget
    <3> SUFFICES ASSUME Balance, Budget, Failing PROVE Cardinality(Respawned) <= MaxAttempts
      BY DEF RespawnBudget, Failing
    <3>1. Cardinality(Respawned) <= Cardinality(Spent) /\ Cardinality(Respawned) \in Nat
      BY SpentFinite, FS_Subset, FS_CardinalityType DEF Spent
    <3>2. Cardinality(Spent) <= attempts /\ attempts \in 0 .. MaxAttempts
      BY DEF Budget, Balance, Typing, TypeOK, PolicyTypeOK
    <3> QED BY <3>1, <3>2, SpentFinite, PolicyAssumption DEF PolicyAssumption
  <2> QED BY <1>1, <2>1, <2>2, BalanceInit, BalanceNext, BudgetNext, PTL DEF Spec
<1>2. CASE ~Frugal
  <2>1. RespawnBudget
    BY <1>2 DEF Frugal, RespawnBudget
  <2> QED BY <2>1, PTL
<1> QED BY <1>1, <1>2
-----------------------------------------------------------------------------
(* A child that is restarted neither by its policy nor by Restart is one   *)
(* process at a time, for every number of clients that call Start and Stop.*)

\* A process may exist, but run has not begun; run may wait for its process;
\* run has not given the child back yet.
Up == {"startPublish", "startRunning", "startLaunch"}
Waiting == {"runEnter", "runRead"}
Serving == Waiting \cup {"runExited", "runPolicy", "runClear", "runSet"}

\* The goroutines the child is in the hands of.
Engaged == {t \in Threads : pc[t] \in ClaimPcs \cup Serving}

Labelled ==
  /\ \A i \in Inc : pc[i] \in Serving \cup {"none", "runReturn", "done"}
  /\ \A c \in Callers :
       /\ pc[c] \in StartPcs \cup {"ready", "stopRead", "stopCancel", "stopSet",
                                    "stopSignal", "stopWait"}
       /\ op[c] # "Restart"

Exclusive ==
  /\ \A t, u \in Engaged : t = u
  /\ Engaged # {} => state \notin {"idle", "crashed"}

\* What run reads again is its own incarnation's.
Own ==
  /\ \A t \in Threads : pc[t] \in {"startRunning", "startLaunch"}
                          => cmd = own[t] /\ waitDone = own[t]
  /\ \A i \in Inc : /\ pc[i] = "runEnter" => cmd = i /\ waitDone = i
                    /\ pc[i] = "runRead" => own[i] = i /\ waitDone = i

ClosedLate == \A i \in closed : proc[i] = "reaped" /\ pc[i] \notin {"none"} \cup Waiting

Watched ==
  \A i \in Unreaped : \/ \E t \in Threads : pc[t] \in Up /\ own[t] = i
                      \/ pc[i] \in Waiting

Sole == NoPanic /\ Labelled /\ Exclusive /\ Own /\ ClosedLate /\ Watched

\* The environment: no automatic restart, and no Restart.
Plain == Mode = "never" /\ "Restart" \notin Ops

-----------------------------------------------------------------------------
\* A child that was just made is in nobody's hands.
LEMMA SoleInit == Init => Sole
<1> SUFFICES ASSUME Init PROVE Sole
  OBVIOUS
<1>1. \A t \in Threads : pc[t] = IF t \in Callers THEN "ready" ELSE "none"
  BY DEF Init
<1>2. Labelled
  BY <1>1, IncIs DEF Init, Labelled
<1>3. Engaged = {}
  BY <1>1 DEF Engaged, ClaimPcs, Serving, Waiting
<1>4. Unreaped = {} /\ closed = {} /\ NoPanic
  BY DEF Init, Unreaped, NoPanic
<1>5. Own
  BY <1>1, IncIs DEF Own
<1> QED
  BY <1>2, <1>3, <1>4, <1>5 DEF Sole, Exclusive, ClosedLate, Watched

\* What the earlier invariants say of the variables used here.
LEMMA Facts ==
  ASSUME Balance
  PROVE  /\ pc \in [Threads -> Labels] /\ own \in [Threads -> Inc \cup {0}]
         /\ proc \in [Inc -> {"none", "alive", "dead", "reaped"}]
         /\ closed \subseteq Inc /\ op \in [Callers -> {"none"} \cup Operations]
         /\ cmd \in Inc \cup {0} /\ waitDone \in Inc \cup {0}
         /\ \A t \in Threads : pc[t] \in ClaimPcs => own[t] \in Inc /\ pc[own[t]] = "none"
  BY DEF Balance, Typing, TypeOK, Claims, OwnKnown

\* The labels after a goroutine has moved.
LEMMA MoveLabelled ==
  ASSUME Balance, Labelled, NEW t \in Threads, NEW l, pc' = [pc EXCEPT ![t] = l],
         t \in Inc => l \in Serving \cup {"none", "runReturn", "done"},
         t \in Callers => l \in StartPcs \cup {"ready", "stopRead", "stopCancel", "stopSet",
                                               "stopSignal", "stopWait"},
         \A c \in Callers : op'[c] # "Restart"
  PROVE  Labelled'
  BY Facts, IncIs DEF Labelled

\* A step that leaves the process and the shared fields alone, of a goroutine
\* that neither takes the child nor waits for its process.
Glide(t, l) ==
  /\ pc' = [pc EXCEPT ![t] = l]
  /\ pc[t] \notin {"none"} \cup Up \cup Waiting /\ l \notin {"none"} \cup Up \cup Waiting
  /\ l \in ClaimPcs \cup Serving => pc[t] \in ClaimPcs \cup Serving
  /\ \A u \in Threads \ {t} : own'[u] = own[u]
  /\ UNCHANGED <<state, cmd, waitDone, closed, proc, panicked>>

\* Such a step keeps the invariant.
LEMMA GlideKeepsSole ==
  ASSUME Balance, Sole, Labelled', NEW t \in Threads, NEW l, Glide(t, l)
  PROVE  Sole'
<1> USE Facts, IncIs
<1>1. NoPanic'
  BY DEF Sole, NoPanic, Glide
<1>2. Engaged' \subseteq Engaged
  BY DEF Engaged, Glide
<1>3. Exclusive'
  BY <1>2 DEF Exclusive, Sole, Glide
<1>4. \A u \in Threads : /\ pc'[u] \in Up \cup Waiting => pc'[u] = pc[u] /\ own'[u] = own[u]
                         /\ pc[u] \in Up \cup Waiting => pc'[u] = pc[u] /\ own'[u] = own[u]
                         /\ pc'[u] = "none" <=> pc[u] = "none"
  BY DEF Glide
<1>5. Own'
  BY <1>4 DEF Own, Sole, Glide, Up, Waiting
<1>6. ClosedLate'
  BY <1>4 DEF ClosedLate, Sole, Glide
<1>7. Watched'
  <2>1. Unreaped' = Unreaped
    BY DEF Unreaped, Glide
  <2> QED BY <1>4, <2>1 DEF Watched, Sole, Unreaped
<1> QED
  BY <1>1, <1>3, <1>5, <1>6, <1>7 DEF Sole

-----------------------------------------------------------------------------
\* The only goroutine the child is in the hands of.
LEMMA OnlyOne ==
  ASSUME Balance, Sole, NEW t \in Threads, pc[t] \in ClaimPcs \cup Serving
  PROVE  /\ Engaged = {t}
         /\ state \notin {"idle", "crashed"}
         /\ \A u \in Threads : pc[u] \in ClaimPcs \cup Serving => u = t
  BY DEF Engaged, Exclusive, Sole

\* The process, if there is one, belongs to that goroutine.
LEMMA OnlyHis ==
  ASSUME Balance, Sole, NEW t \in Threads,
         \A u \in Threads : u # t => pc[u] \notin ClaimPcs \cup Serving
  PROVE  \A i \in Unreaped : \/ pc[t] \in Up /\ own[t] = i
                             \/ pc[t] \in Waiting /\ t = i
<1> SUFFICES ASSUME NEW i \in Unreaped
             PROVE  \/ pc[t] \in Up /\ own[t] = i
                    \/ pc[t] \in Waiting /\ t = i
  OBVIOUS
<1>1. Up \subseteq ClaimPcs /\ Waiting \subseteq Serving /\ i \in Threads
  BY IncIs DEF Up, ClaimPcs, Serving, Unreaped
<1>2. (\E u \in Threads : pc[u] \in Up /\ own[u] = i) \/ pc[i] \in Waiting
  BY DEF Sole, Watched
<1>3. CASE pc[i] \in Waiting
  BY <1>1, <1>3
<1>4. CASE \E u \in Threads : pc[u] \in Up /\ own[u] = i
  BY <1>1, <1>4
<1> QED BY <1>2, <1>3, <1>4

\* Start claims a child that is in nobody's hands.
LEMMA StartEnterSole ==
  ASSUME Balance, Sole, NEW t \in Threads, StartEnter(t)
  PROVE  Sole'
<1> USE Facts, IncIs DEF At, Goto
<1>0. /\ pc' = [pc EXCEPT ![t] = "startCtx"] /\ pc[t] = "startEnter" /\ state' = "starting"
      /\ UNCHANGED <<cmd, waitDone, proc, closed, op, panicked>> /\ CanStart
  BY DEF StartEnter, osVars
<1>1. t \in Callers
  BY <1>0 DEF Sole, Labelled, Serving, Waiting
<1>2. Labelled'
  BY <1>0, <1>1, MoveLabelled DEF Sole, Labelled, StartPcs
<1>3. Engaged = {}
  BY <1>0 DEF CanStart, Sole, Exclusive
<1>4. \A u \in Threads : pc[u] \notin ClaimPcs \cup Serving
  BY <1>3 DEF Engaged
<1>5. \A u \in Threads : u # t => pc'[u] = pc[u]
  BY <1>0
<1>6. Engaged' \subseteq {t}
  BY <1>4, <1>5 DEF Engaged
<1>7. Exclusive'
  BY <1>0, <1>6 DEF Exclusive
<1>8. \A u \in Threads : pc'[u] \notin Up \cup Waiting /\ (pc'[u] = "none" => pc[u] = "none")
  BY <1>0, <1>4, <1>5 DEF Up, Waiting, Serving, ClaimPcs
<1>9. Own'
  BY <1>8 DEF Own, Up, Waiting
<1>10. ClosedLate'
  BY <1>0, <1>8 DEF ClosedLate, Sole
<1>11. Unreaped' = Unreaped /\ Unreaped = {}
  <2>1. Unreaped = {}
    BY <1>0, <1>4, OnlyHis DEF Up, Waiting
  <2> QED BY <1>0, <2>1 DEF Unreaped
<1> QED
  BY <1>0, <1>2, <1>7, <1>9, <1>10, <1>11 DEF Sole, NoPanic, Watched

\* The steps of the Start that has the child.
LEMMA StartingSole ==
  ASSUME Balance, Sole, NEW t \in Threads,
         StartSpawn(t) \/ StartSpawnFails(t) \/ StartPublish(t) \/ StartRunning(t)
  PROVE  Sole'
<1> USE Facts, IncIs DEF At, Goto, osVars, childVars, localVars
<1>0. /\ pc[t] \in ClaimPcs /\ own[t] \in Inc /\ pc[own[t]] = "none"
      /\ own' = own /\ op' = op /\ closed' = closed /\ panicked' = panicked
  BY DEF StartSpawn, StartSpawnFails, StartPublish, StartRunning, ClaimPcs
<1>1. t \in Callers
  BY <1>0 DEF Sole, Labelled, Serving, Waiting, ClaimPcs
<1>2. PICK l \in {"startPublish", "startAbort", "startRunning", "startLaunch"} :
        pc' = [pc EXCEPT ![t] = l]
  BY DEF StartSpawn, StartSpawnFails, StartPublish, StartRunning
<1>3. Labelled'
  BY <1>0, <1>1, <1>2, MoveLabelled DEF Sole, Labelled, StartPcs
<1>4. \A u \in Threads : u # t => pc'[u] = pc[u] /\ pc[u] \notin ClaimPcs \cup Serving
  BY <1>0, <1>2, OnlyOne
<1>5. Engaged' \subseteq {t}
  BY <1>4 DEF Engaged
<1>6. state \notin {"idle", "crashed"}
  BY <1>0, OnlyOne
<1>7. Exclusive'
  <2>1. CASE StartSpawnFails(t)
    BY <1>4, <2>1 DEF StartSpawnFails, Exclusive, Engaged, ClaimPcs, Serving, Waiting
  <2>2. CASE StartSpawn(t) \/ StartPublish(t) \/ StartRunning(t)
    BY <1>5, <1>6, <2>2 DEF StartSpawn, StartPublish, StartRunning, Exclusive
  <2> QED BY <2>1, <2>2
<1>8. \A u \in Threads : u # t => pc'[u] \notin Up \cup Waiting
  BY <1>4 DEF ClaimPcs, Up, Serving
<1>9. Own'
  <2>1. \A i \in Inc : pc'[i] \notin Waiting
    BY <1>1, <1>8
  <2>2. pc'[t] \in {"startRunning", "startLaunch"} => cmd' = own'[t] /\ waitDone' = own'[t]
    BY DEF StartSpawn, StartSpawnFails, StartPublish, StartRunning, Sole, Own
  <2> QED BY <1>8, <2>1, <2>2 DEF Own, Up, Waiting
<1>10. own[t] \notin closed
  BY <1>0 DEF Sole, ClosedLate
<1>11. ClosedLate'
  <2>1. \A i \in closed : proc'[i] = proc[i]
    <3>1. proc' = proc \/ proc' = [proc EXCEPT ![own[t]] = "alive"]
      BY DEF StartSpawn, StartSpawnFails, StartPublish, StartRunning
    <3> QED BY <1>10, <3>1
  <2>2. \A i \in closed : i # t /\ i \in Threads
    BY <1>1
  <2>3. \A i \in closed : pc'[i] = pc[i]
    BY <1>4, <2>2
  <2>4. ClosedLate /\ closed' = closed
    BY <1>0 DEF Sole
  <2> QED BY ONLY <2>1, <2>3, <2>4 DEF ClosedLate
<1>12. Watched'
  <2>1. CASE StartSpawn(t)
    <3>1. pc'[t] \in Up /\ Unreaped' \subseteq Unreaped \cup {own[t]}
      BY <2>1 DEF StartSpawn, Up, Unreaped
    <3>2. Unreaped = {}
      BY <1>4, <2>1, OnlyHis DEF StartSpawn, Up, Waiting
    <3> QED BY <1>0, <3>1, <3>2 DEF Watched
  <2>2. CASE StartSpawnFails(t)
    <3>1. Unreaped = {}
      BY <1>4, <2>2, OnlyHis DEF StartSpawnFails, Up, Waiting
    <3> QED BY <2>2, <3>1 DEF StartSpawnFails, Watched, Unreaped
  <2>3. CASE StartPublish(t) \/ StartRunning(t)
    <3>1. pc'[t] \in Up /\ Unreaped' = Unreaped
      BY <2>3 DEF StartPublish, StartRunning, Up, Unreaped
    <3>2. \A i \in Unreaped : own[t] = i
      BY <1>0, <1>4, OnlyHis DEF Waiting, ClaimPcs
    <3> QED BY <1>0, <3>1, <3>2 DEF Watched
  <2> QED BY <2>1, <2>2, <2>3
<1> QED
  BY <1>0, <1>3, <1>7, <1>9, <1>11, <1>12 DEF Sole, NoPanic

\* The child passes from Start to its run goroutine.
LEMMA StartLaunchSole ==
  ASSUME Balance, Sole, NEW t \in Threads, StartLaunch(t)
  PROVE  Sole'
<1> USE Facts, IncIs DEF At, osVars, childVars
<1> DEFINE j == own[t]
<1>0. /\ pc[t] = "startLaunch" /\ j \in Inc /\ pc[j] = "none" /\ cmd = j /\ waitDone = j
      /\ UNCHANGED <<state, cmd, waitDone, proc, closed, panicked>>
  BY DEF StartLaunch, ClaimPcs, Sole, Own
<1>1. t \in Callers
  BY <1>0 DEF Sole, Labelled, Serving, Waiting
<1>2. /\ pc' = [pc EXCEPT ![t] = "ready", ![j] = "runEnter"]
      /\ own' = [own EXCEPT ![t] = 0] /\ op' = [op EXCEPT ![t] = "none"]
  BY <1>1 DEF StartLaunch
<1>3. /\ pc'[t] = "ready" /\ pc'[j] = "runEnter" /\ t # j
      /\ \A u \in Threads \ {t, j} : pc'[u] = pc[u]
  BY <1>0, <1>1, <1>2
<1>4. Labelled'
  BY <1>0, <1>1, <1>2, <1>3 DEF Sole, Labelled, Serving, Waiting
<1>5. \A u \in Threads : u # t => pc[u] \notin ClaimPcs \cup Serving
  BY <1>0, OnlyOne DEF ClaimPcs
<1>6. Engaged' \subseteq {j}
  BY <1>3, <1>5 DEF Engaged, ClaimPcs, Serving, Waiting
<1>7. Exclusive'
  BY <1>0, <1>6, OnlyOne DEF Exclusive, ClaimPcs
<1>8. \A u \in Threads : u # j => pc'[u] \notin Up \cup Waiting
  BY <1>3, <1>5 DEF ClaimPcs, Up, Serving, Waiting
<1>9. Own'
  BY <1>0, <1>1, <1>3, <1>8 DEF Own, Up, Waiting
<1>10. ClosedLate'
  BY <1>0, <1>1, <1>3 DEF ClosedLate, Sole
<1>11. \A i \in Unreaped : i = j
  BY <1>0, <1>5, OnlyHis DEF Waiting
<1>12. Watched'
  BY <1>0, <1>3, <1>11 DEF Watched, Unreaped, Waiting
<1> QED
  BY <1>0, <1>4, <1>7, <1>9, <1>10, <1>12 DEF Sole, NoPanic

\* The steps of run that touch the process or the child's fields.
LEMMA RunningSole ==
  ASSUME Balance, Sole, NEW i \in Inc,
         RunEnter(i) \/ RunReap(i) \/ RunClear(i) \/ RunSet(i)
  PROVE  Sole'
<1> USE Facts, IncIs DEF At, Goto, osVars, childVars, localVars
<1>0. pc[i] \in {"runEnter", "runRead", "runClear", "runSet"}
  BY DEF RunEnter, RunReap, RunClear, RunSet
<1>1. /\ pc[i] = "runEnter" => cmd = i /\ waitDone = i /\ i # 0
      /\ pc[i] = "runRead" => own[i] = i /\ waitDone = i /\ i \notin closed
  BY DEF Sole, Own, ClosedLate, Waiting
<1>2. /\ RunEnter(i) => pc' = [pc EXCEPT ![i] = "runRead"] /\ own' = [own EXCEPT ![i] = i]
      /\ RunReap(i) => /\ pc' = [pc EXCEPT ![i] = "runExited"] /\ closed' = closed \cup {i}
                       /\ proc' = [proc EXCEPT ![i] = "reaped"]
  <2>1. RunEnter(i) => pc' = [pc EXCEPT ![i] = "runRead"] /\ own' = [own EXCEPT ![i] = i]
    BY <1>1 DEF RunEnter
  <2>2. RunReap(i) => /\ pc' = [pc EXCEPT ![i] = "runExited"] /\ closed' = closed \cup {i}
                      /\ proc' = [proc EXCEPT ![i] = "reaped"]
    <3> SUFFICES ASSUME RunReap(i)
                 PROVE  /\ pc' = [pc EXCEPT ![i] = "runExited"] /\ closed' = closed \cup {i}
                        /\ proc' = [proc EXCEPT ![i] = "reaped"]
      OBVIOUS
    <3>1. own[i] = i /\ waitDone = i /\ i \notin closed
      BY <1>1 DEF RunReap
    <3>2. closed' = closed \cup ({i} \ {0})
      BY <3>1 DEF RunReap
    <3> QED BY <3>1, <3>2 DEF RunReap
  <2> QED BY <2>1, <2>2
<1>3. PICK l \in {"runRead", "runExited", "runSet", "runReturn"} : pc' = [pc EXCEPT ![i] = l]
  BY <1>2 DEF RunClear, RunSet
<1>4. op' = op /\ panicked' = panicked
  BY <1>1 DEF RunEnter, RunReap, RunClear, RunSet
<1>5. Labelled'
  BY <1>3, <1>4, MoveLabelled DEF Sole, Labelled, Serving, Waiting
<1>6. \A u \in Threads : u # i => pc'[u] = pc[u] /\ pc[u] \notin ClaimPcs \cup Serving
  BY <1>0, <1>3, OnlyOne DEF Serving, Waiting
<1>7. Exclusive'
  <2>1. CASE RunSet(i)
    <3>1. pc'[i] = "runReturn"
      BY <2>1 DEF RunSet
    <3>2. Engaged' = {}
      BY <1>6, <3>1 DEF Engaged, ClaimPcs, Serving, Waiting
    <3> QED BY <3>2 DEF Exclusive
  <2>2. CASE RunEnter(i) \/ RunReap(i) \/ RunClear(i)
    <3>1. state' = state /\ state \notin {"idle", "crashed"}
      BY <1>0, <2>2, OnlyOne DEF RunEnter, RunReap, RunClear, Serving, Waiting
    <3>2. Engaged' \subseteq {i}
      BY <1>6 DEF Engaged
    <3> QED BY <3>1, <3>2 DEF Exclusive
  <2> QED BY <2>1, <2>2
<1>8. \A u \in Threads : u # i => pc'[u] \notin Up \cup Waiting
  BY <1>6 DEF ClaimPcs, Up, Serving
<1>9. pc'[i] \notin Up \cup {"none", "runEnter"}
  BY <1>3 DEF Up
<1>10. pc'[i] = "runRead" => own'[i] = i /\ waitDone' = i
  <2>1. pc'[i] = "runRead" => RunEnter(i)
    BY <1>2 DEF RunClear, RunSet
  <2> QED BY <1>1, <1>2, <2>1 DEF RunEnter
<1>11. Own'
  BY <1>8, <1>9, <1>10 DEF Own, Up, Waiting
<1>12. ClosedLate'
  <2>1. CASE RunReap(i)
    <3>1. pc'[i] = "runExited" /\ proc'[i] = "reaped" /\ closed' = closed \cup {i}
      BY <1>2, <2>1
    <3>2. \A k \in closed : k # i => proc'[k] = "reaped" /\ pc'[k] = pc[k]
      BY <1>2, <1>6, <2>1 DEF ClosedLate, Sole
    <3> QED BY <3>1, <3>2 DEF ClosedLate, Sole, Waiting
  <2>2. CASE RunEnter(i) \/ RunClear(i) \/ RunSet(i)
    <3>1. closed' = closed /\ proc' = proc
      BY <2>2 DEF RunEnter, RunClear, RunSet
    <3>2. pc[i] \notin Waiting => pc'[i] \notin {"none"} \cup Waiting
      BY <1>2, <2>2 DEF RunEnter, RunClear, RunSet, Waiting
    <3> QED BY <1>6, <3>1, <3>2 DEF ClosedLate, Sole
  <2> QED BY <2>1, <2>2
<1>13. \A k \in Unreaped : k = i /\ pc[i] \in Waiting
  BY <1>0, <1>6, OnlyHis DEF Up
<1>14. Watched'
  <2>1. CASE RunEnter(i)
    BY <1>2, <1>3, <1>13, <2>1 DEF RunEnter, Watched, Unreaped, Waiting
  <2>2. CASE RunReap(i)
    <3>1. Unreaped' = {}
      BY <1>2, <1>13, <2>2 DEF Unreaped
    <3> QED BY <3>1 DEF Watched
  <2>3. CASE RunClear(i) \/ RunSet(i)
    <3>1. Unreaped' = {}
      BY <1>13, <2>3 DEF Unreaped, RunClear, RunSet, Waiting
    <3> QED BY <3>1 DEF Watched
  <2> QED BY <2>1, <2>2, <2>3
<1> QED
  BY <1>4, <1>5, <1>7, <1>11, <1>12, <1>14 DEF Sole, NoPanic

-----------------------------------------------------------------------------
\* The steps that glide.
LEMMA CallerGlides ==
  ASSUME Balance, Sole, NEW c \in Callers, NEW l, Glide(c, l),
         l \in StartPcs \cup {"ready", "stopRead", "stopCancel", "stopSet",
                              "stopSignal", "stopWait"},
         \A d \in Callers \ {c} : op'[d] = op[d], op'[c] # "Restart"
  PROVE  Sole'
<1>1. \A d \in Callers : op'[d] # "Restart"
  BY DEF Sole, Labelled
<1>2. Labelled'
  BY <1>1, IncIs, MoveLabelled DEF Sole, Glide
<1> QED
  BY <1>2, IncIs, GlideKeepsSole

\* The same for run.
LEMMA RunGlides ==
  ASSUME Balance, Sole, NEW i \in Inc, NEW l \in {"runPolicy", "runClear", "done"},
         Glide(i, l), op' = op
  PROVE  Sole'
<1>1. Labelled'
  BY IncIs, MoveLabelled DEF Sole, Labelled, Glide, Serving
<1> QED
  BY <1>1, IncIs, GlideKeepsSole

\* Start and Stop return to the caller.
LEMMA ReturnGlides ==
  ASSUME Balance, Sole, NEW c \in Callers, Return(c),
         pc[c] \notin {"none"} \cup Up \cup Waiting,
         UNCHANGED <<state, cmd, waitDone, closed, proc, panicked>>
  PROVE  Sole'
<1> USE Facts, IncIs
<1>1. Glide(c, "ready")
  BY DEF Glide, Return, Goto, Up, Waiting, Serving, ClaimPcs
<1>2. op'[c] # "Restart" /\ \A d \in Callers \ {c} : op'[d] = op[d]
  BY DEF Return
<1> QED
  BY <1>1, <1>2, CallerGlides

\* Start, step by step.
LEMMA StartSole ==
  ASSUME Balance, Sole, NEW t \in Threads, StartStep(t)
  PROVE  Sole'
<1> USE Facts, IncIs DEF At, Goto, osVars, childVars, localVars
<1>0. pc[t] \in StartPcs
  BY DEF StartStep, StartEnter, StartRefused, StartCtx, StartSpawn, StartSpawnFails,
         StartAbort, StartPublish, StartRunning, StartLaunch, StartPcs
<1>1. t \in Callers
  BY <1>0 DEF Sole, Labelled, StartPcs, Serving, Waiting
<1>2. op[t] # "Restart"
  BY <1>1 DEF Sole, Labelled
<1>3. CASE StartRefused(t)
  BY <1>1, <1>3, ReturnGlides DEF StartRefused, Up, Waiting
<1>4. CASE StartAbort(t)
  BY <1>1, <1>4, ReturnGlides DEF StartAbort, Up, Waiting
<1>5. CASE StartCtx(t)
  <2>1. Glide(t, "startSpawn") /\ op' = op
    BY <1>5 DEF StartCtx, Glide, Up, Waiting, ClaimPcs
  <2> QED BY <1>1, <1>2, <2>1, CallerGlides DEF StartPcs
<1> QED
  BY <1>3, <1>4, <1>5, StartEnterSole, StartingSole, StartLaunchSole DEF StartStep

\* run, step by step.
LEMMA RunSole ==
  ASSUME Balance, Sole, Plain, NEW i \in Inc, RunStep(i)
  PROVE  Sole'
<1> USE Facts, IncIs DEF At, Goto, osVars, childVars, localVars
<1>0. pc[i] \in Serving \cup {"none", "runReturn", "done"}
  BY DEF Sole, Labelled
<1>1. CASE RunExited(i)
  <2>1. \E l \in {"runClear", "runPolicy"} : Glide(i, l)
    BY <1>1 DEF RunExited, Glide, Up, Waiting, Serving
  <2> QED BY <1>1, <2>1, RunGlides DEF RunExited
<1>2. CASE RunPolicy(i)
  <2>1. Decision(code[own[i]]) = "none"
    BY DEF Decision, Plain
  <2>2. Glide(i, "runClear")
    BY <1>2, <2>1 DEF RunPolicy, Glide, Up, Waiting, Serving
  <2> QED BY <1>2, <2>2, RunGlides DEF RunPolicy
<1>3. CASE RunReturn(i)
  <2>1. Glide(i, "done")
    BY <1>3 DEF RunReturn, Done, Glide, Up, Waiting, Serving, ClaimPcs
  <2> QED BY <1>3, <2>1, RunGlides DEF RunReturn
<1>4. ~(\/ RunRestarting(i) \/ RunAnnounce(i) \/ RunBackoffCancelled(i)
        \/ RunBackoffElapsed(i) \/ RunRespawn(i) \/ RunRefused(i) \/ RunRespawned(i))
  BY <1>0 DEF RunRestarting, RunAnnounce, RunBackoffCancelled, RunBackoffElapsed,
              RunRespawn, RunRefused, RunRespawned, Serving, Waiting
<1> QED
  BY <1>1, <1>2, <1>3, <1>4, RunningSole DEF RunStep

\* Stop, step by step.
LEMMA StopSole ==
  ASSUME Balance, Sole, NEW c \in Callers, StopStep(c)
  PROVE  Sole'
<1> USE Facts, IncIs DEF At, Goto, osVars, childVars, localVars
<1>0. /\ pc[c] \in StartPcs \cup {"ready", "stopRead", "stopCancel", "stopSet",
                                  "stopSignal", "stopWait"}
      /\ op[c] # "Restart"
  BY DEF Sole, Labelled
<1>1. StopReturns(c) => Return(c)
  BY <1>0 DEF StopReturns
<1>2. CASE StopRead(c)
  <2>1. Glide(c, "stopCancel")
    BY <1>2 DEF StopRead, Glide, Up, Waiting, Serving, ClaimPcs
  <2> QED BY <1>0, <1>2, <2>1, CallerGlides DEF StopRead
<1>3. CASE StopCancel(c)
  <2>1. CASE held[c].cmd = 0
    BY <1>1, <1>3, <2>1, ReturnGlides DEF StopCancel, Up, Waiting
  <2>2. CASE held[c].cmd # 0
    <3>1. Glide(c, "stopSet") /\ op' = op
      BY <1>3, <2>2 DEF StopCancel, Glide, Up, Waiting, Serving, ClaimPcs
    <3> QED BY <1>0, <3>1, CallerGlides
  <2> QED BY <2>1, <2>2
<1>4. CASE StopSet(c)
  <2>1. /\ pc' = [pc EXCEPT ![c] = "stopSignal"] /\ pc[c] = "stopSet" /\ state' = "stopping"
        /\ UNCHANGED <<own, op, cmd, waitDone, closed, proc, panicked>>
    BY <1>4 DEF StopSet
  <2>2. Labelled'
    BY <2>1, MoveLabelled DEF Sole, Labelled
  <2>3. \A u \in Threads : \/ pc'[u] = pc[u]
                           \/ u = c /\ pc'[u] \notin {"none"} \cup Up \cup Waiting \cup Serving
                                                      \cup ClaimPcs
    BY <2>1 DEF Up, Waiting, Serving, ClaimPcs
  <2>4. Exclusive'
    <3>1. Engaged' \subseteq Engaged
      BY <2>3 DEF Engaged
    <3> QED BY <2>1, <3>1 DEF Exclusive, Sole
  <2>5. Own'
    BY <2>1, <2>3 DEF Own, Sole, Up, Waiting
  <2>6. ClosedLate'
    BY <2>1, <2>3 DEF ClosedLate, Sole
  <2>7. Watched'
    <3>1. Unreaped' = Unreaped
      BY <2>1 DEF Unreaped
    <3>2. \A u \in Threads : pc[u] \in Up \cup Waiting => pc'[u] = pc[u]
      BY <2>1 DEF Up, Waiting
    <3>3. own' = own
      BY <2>1
    <3> QED BY <3>1, <3>2, <3>3 DEF Watched, Sole, Unreaped
  <2> QED BY <2>1, <2>2, <2>4, <2>5, <2>6, <2>7 DEF Sole, NoPanic
<1>5. CASE StopSignal(c)
  <2>1. CASE proc[held[c].cmd] = "reaped"
    BY <1>1, <1>5, <2>1, ReturnGlides DEF StopSignal, Up, Waiting
  <2>2. CASE proc[held[c].cmd] # "reaped"
    <3>1. Glide(c, "stopWait") /\ op' = op
      BY <1>5, <2>2 DEF StopSignal, Glide, Up, Waiting, Serving, ClaimPcs
    <3> QED BY <1>0, <3>1, CallerGlides
  <2> QED BY <2>1, <2>2
<1>6. CASE StopDone(c)
  BY <1>1, <1>6, ReturnGlides DEF StopDone, Up, Waiting
<1>7. CASE StopGrace(c)
  BY <1>1, <1>7, ReturnGlides DEF StopGrace, Up, Waiting
<1>8. ~RestartReset(c) /\ ~RestartIdle(c)
  BY <1>0 DEF RestartReset, RestartIdle, StartPcs
<1> QED
  BY <1>2, <1>3, <1>4, <1>5, <1>6, <1>7, <1>8 DEF StopStep

\* The calls.
LEMMA CallSole ==
  ASSUME Balance, Sole, Plain, NEW c \in Callers, Call(c)
  PROVE  Sole'
<1> USE Facts, IncIs DEF At, Goto, osVars, childVars, localVars
<1>1. CASE CallStart(c)
  <2>1. Glide(c, "startEnter") /\ op' = [op EXCEPT ![c] = "Start"]
    BY <1>1 DEF CallStart, Glide, Up, Waiting, Serving, ClaimPcs
  <2> QED BY <2>1, CallerGlides DEF StartPcs
<1>2. ASSUME NEW o \in {"Stop", "Restart"}, CallStop(c, o) PROVE Sole'
  <2>1. o = "Stop"
    BY <1>2 DEF CallStop, Plain
  <2>2. Glide(c, "stopRead") /\ op' = [op EXCEPT ![c] = "Stop"]
    BY <1>2, <2>1 DEF CallStop, Glide, Up, Waiting, Serving, ClaimPcs
  <2> QED BY <2>2, CallerGlides
<1> QED
  BY <1>1, <1>2 DEF Call

\* No goroutine moves: a process ends, the timer fires, nothing happens.
LEMMA QuietSole ==
  ASSUME Balance, Sole,
         (\E i \in Inc : ProcExits(i)) \/ ResetTimer \/ UNCHANGED vars
  PROVE  Sole'
<1> USE Facts, IncIs DEF osVars, childVars, localVars
<1>1. UNCHANGED <<state, cmd, waitDone, closed, pc, own, op, panicked>>
  BY DEF ProcExits, ResetTimer, vars
<1>2. Unreaped' = Unreaped /\ \A i \in Inc : proc[i] = "reaped" => proc'[i] = "reaped"
  <2>1. CASE \E i \in Inc : ProcExits(i)
    BY <2>1 DEF ProcExits, Unreaped
  <2>2. CASE ResetTimer \/ UNCHANGED vars
    BY <2>2 DEF ResetTimer, vars, Unreaped
  <2> QED BY <2>1, <2>2
<1>3. Labelled' /\ Exclusive' /\ Own'
  BY <1>1 DEF Labelled, Exclusive, Engaged, Own, Sole
<1>4. ClosedLate' /\ Watched'
  BY <1>1, <1>2 DEF ClosedLate, Watched, Sole
<1> QED
  BY <1>1, <1>3, <1>4 DEF Sole, NoPanic

\* Every step keeps the invariant.
LEMMA SoleNext == Plain /\ Balance /\ Sole /\ [Next]_vars => Sole'
  BY StartSole, RunSole, StopSole, CallSole, QuietSole DEF Next

\* The inductive invariant of a child that only Start starts.
LEMMA SoleAlways == ASSUME Plain PROVE Spec => [](Balance /\ Sole)
<1>1. Init => Balance /\ Sole
  BY BalanceInit, SoleInit
<1>2. (Balance /\ Sole) /\ [Next]_vars => (Balance /\ Sole)'
  BY BalanceNext, SoleNext
<1> QED
  BY <1>1, <1>2, PTL DEF Spec

\* A child under policy "never" that nobody restarts owns at most one process,
\* however many clients start and stop it at the same time.
THEOREM OneProcess ==
  ASSUME Mode = "never", "Restart" \notin Ops
  PROVE  Spec => []SingleProcess
<1>1. ASSUME Balance, Sole PROVE SingleProcess
  <2>1. \A i, k \in Unreaped : i = k
    <3> SUFFICES ASSUME NEW i \in Unreaped, NEW k \in Unreaped PROVE i = k
      OBVIOUS
    <3>1. PICK t \in Threads : pc[t] \in ClaimPcs \cup Serving
      BY <1>1, IncIs DEF Sole, Watched, Unreaped, Up, ClaimPcs, Serving
    <3>2. \A u \in Threads : u # t => pc[u] \notin ClaimPcs \cup Serving
      BY <1>1, <3>1, OnlyOne
    <3> QED BY <1>1, <3>2, OnlyHis DEF Up, Waiting
  <2>2. CASE Unreaped = {}
    BY <2>2, FS_EmptySet DEF SingleProcess
  <2>3. CASE Unreaped # {}
    <3>1. PICK i \in Unreaped : Unreaped = {i}
      BY <2>1, <2>3
    <3>2. Cardinality(Unreaped) = 1
      BY <3>1, FS_Singleton
    <3> QED BY <3>2 DEF SingleProcess
  <2> QED BY <2>2, <2>3
<1>2. Plain
  BY DEF Plain
<1> QED
  BY <1>1, <1>2, SoleAlways, PTL

\* In the same environment no goroutine waits on a nil cmd or closes waitDone
\* a second time.
THEOREM NeverPanics ==
  ASSUME Mode = "never", "Restart" \notin Ops
  PROVE  Spec => []NoPanic
<1>1. Sole => NoPanic
  BY DEF Sole
<1>2. Plain
  BY DEF Plain
<1> QED
  BY <1>1, <1>2, SoleAlways, PTL

\* In the same environment a Stop that finds waitDone closed has stopped its
\* process: the channel is closed only after the process has been waited for.
THEOREM ClosedTells ==
  ASSUME Mode = "never", "Restart" \notin Ops
  PROVE  Spec => []ClosedMeansReaped
<1>1. Sole => ClosedMeansReaped
  BY DEF Sole, ClosedLate, ClosedMeansReaped
<1>2. Plain
  BY DEF Plain
<1> QED
  BY <1>1, <1>2, SoleAlways, PTL

-----------------------------------------------------------------------------
(* The PID that is published, and saved for the next daemon, is set where  *)
(* run begins and cleared where it has seen the process end.               *)

Shown ==
  /\ \A i \in Inc : pc[i] \in Waiting => published.pid = i
  /\ published.pid \in Inc => pc[published.pid] \in Waiting \cup {"runExited"}

\* A run goroutine that has yet to report the end of its process may go on to
\* report it; nobody else comes to these labels, and the PID stays.
Reports ==
  /\ published'.pid = published.pid
  /\ \A i \in Inc : \/ pc'[i] = pc[i]
                    \/ pc[i] \in Waiting /\ pc'[i] \in Waiting \cup {"runExited"}
                    \/ {pc[i], pc'[i]} \cap (Waiting \cup {"runExited"}) = {}

\* Such a step keeps the PID true.
LEMMA ReportsKeepShown == Shown /\ Reports => Shown'
  BY DEF Shown, Reports, Waiting

\* What Start does before its launch changes no PID.
LEMMA StartShown ==
  ASSUME Balance, Sole, Shown, NEW t \in Threads, StartStep(t)
  PROVE  Shown'
<1> USE Facts, IncIs DEF At, Goto, osVars, childVars, localVars
<1>0. pc[t] \in StartPcs /\ published \in [state : States, pid : Inc \cup {0}]
  BY DEF StartStep, StartEnter, StartRefused, StartCtx, StartSpawn, StartSpawnFails,
         StartAbort, StartPublish, StartRunning, StartLaunch, StartPcs, Balance, Typing, TypeOK
<1>1. t \in Callers
  BY <1>0 DEF Sole, Labelled, StartPcs, Serving, Waiting
<1>2. CASE StartLaunch(t)
  <2>1. own[t] \in Inc /\ published'.pid = own[t] /\ pc[t] \in ClaimPcs
    BY <1>2 DEF StartLaunch, ClaimPcs
  <2>2. pc'[own[t]] = "runEnter" /\ \A i \in Inc \ {own[t]} : pc'[i] = pc[i]
    BY <1>1, <1>2, <2>1 DEF StartLaunch
  <2>3. \A i \in Inc : pc[i] \notin Waiting
    BY <1>1, <2>1, OnlyOne DEF Serving
  <2> QED BY <2>1, <2>2, <2>3 DEF Shown, Waiting
<1>3. CASE ~StartLaunch(t)
  <2>1. published'.pid = published.pid
    BY <1>0, <1>3 DEF StartStep, StartEnter, StartRefused, StartCtx, StartSpawn,
           StartSpawnFails, StartAbort, StartPublish, StartRunning, Publish
  <2>2. \A i \in Inc : pc'[i] = pc[i]
    BY <1>1, <1>3 DEF StartStep, StartEnter, StartRefused, StartCtx, StartSpawn,
           StartSpawnFails, StartAbort, StartPublish, StartRunning, Return
  <2> QED BY <2>1, <2>2, ReportsKeepShown DEF Reports
<1> QED
  BY <1>2, <1>3

\* run clears the PID in the step in which it reports the end of its process.
LEMMA RunShown ==
  ASSUME Balance, Sole, Shown, NEW i \in Inc, RunStep(i)
  PROVE  Shown'
<1> USE Facts, IncIs DEF At, Goto, osVars, childVars, localVars
<1>0. /\ pc[i] \in Serving \cup {"none", "runReturn", "done"}
      /\ published \in [state : States, pid : Inc \cup {0}]
  BY DEF Sole, Labelled, Balance, Typing, TypeOK
<1>1. CASE RunExited(i)
  <2>1. published'.pid = 0 /\ pc[i] = "runExited"
    BY <1>0, <1>1 DEF RunExited, PublishExit
  <2>2. \A j \in Inc : pc'[j] \notin Waiting
    <3>1. \A j \in Inc \ {i} : pc[j] \notin Waiting
      BY <2>1, OnlyOne DEF Serving
    <3>2. pc'[i] \in {"runClear", "runPolicy"} /\ \A j \in Inc \ {i} : pc'[j] = pc[j]
      BY <1>1 DEF RunExited
    <3> QED BY <3>1, <3>2 DEF Waiting
  <2> QED BY <2>1, <2>2 DEF Shown
<1>2. CASE RunEnter(i) \/ RunReap(i)
  <2>1. published' = published
    BY <1>2 DEF RunEnter, RunReap
  <2>2. \/ pc'[i] = pc[i]
        \/ pc[i] \in Waiting /\ pc'[i] \in Waiting \cup {"runExited"}
    BY <1>2 DEF RunEnter, RunReap, Waiting
  <2>3. \A j \in Inc \ {i} : pc'[j] = pc[j]
    BY <1>2 DEF RunEnter, RunReap
  <2> QED BY <2>1, <2>2, <2>3, ReportsKeepShown DEF Reports
<1>3. CASE RunPolicy(i) \/ RunClear(i) \/ RunSet(i) \/ RunReturn(i)
  <2>1. published'.pid = published.pid
    BY <1>0, <1>3 DEF RunPolicy, RunClear, RunSet, RunReturn, Publish
  <2>2. {pc[i], pc'[i]} \cap (Waiting \cup {"runExited"}) = {}
    BY <1>3 DEF RunPolicy, RunClear, RunSet, RunReturn, Done, Waiting
  <2>3. \A j \in Inc \ {i} : pc'[j] = pc[j]
    BY <1>3 DEF RunPolicy, RunClear, RunSet, RunReturn, Done
  <2> QED BY <2>1, <2>2, <2>3, ReportsKeepShown DEF Reports
<1>4. ~(\/ RunRestarting(i) \/ RunAnnounce(i) \/ RunBackoffCancelled(i)
        \/ RunBackoffElapsed(i) \/ RunRespawn(i) \/ RunRefused(i) \/ RunRespawned(i))
  BY <1>0 DEF RunRestarting, RunAnnounce, RunBackoffCancelled, RunBackoffElapsed,
              RunRespawn, RunRefused, RunRespawned, Serving, Waiting
<1> QED
  BY <1>1, <1>2, <1>3, <1>4 DEF RunStep

\* Stop, a call, an exit and the timer leave the PID and the run goroutines alone.
LEMMA OthersShown ==
  ASSUME Balance, Shown,
         \/ \E c \in Callers : StopStep(c) \/ Call(c)
         \/ \E i \in Inc : ProcExits(i)
         \/ ResetTimer \/ UNCHANGED vars
  PROVE  Shown'
<1> USE Facts, IncIs DEF At, Goto
<1>0. published \in [state : States, pid : Inc \cup {0}]
  BY DEF Balance, Typing, TypeOK
<1>1. ASSUME NEW c \in Callers, StopStep(c) PROVE Reports
  <2>1. published'.pid = published.pid
    BY <1>0, <1>1 DEF StopStep, StopRead, StopCancel, StopSet, StopSignal, StopDone, StopGrace,
           RestartReset, RestartIdle, Publish
  <2>2. \A i \in Inc : pc'[i] = pc[i]
    BY <1>1 DEF StopStep, StopRead, StopCancel, StopSet, StopSignal, StopDone, StopGrace,
           RestartReset, RestartIdle, StopReturns, Return
  <2> QED BY <2>1, <2>2 DEF Reports
<1>2. ASSUME NEW c \in Callers, Call(c) PROVE Reports
  BY <1>2 DEF Call, CallStart, CallStop, Reports
<1>3. CASE (\E i \in Inc : ProcExits(i)) \/ ResetTimer \/ UNCHANGED vars
  BY <1>3, ReportsKeepShown DEF ProcExits, ResetTimer, vars, Reports
<1> QED
  BY <1>1, <1>2, <1>3, ReportsKeepShown

\* Every step keeps the PID true.
LEMMA ShownNext == Plain /\ Balance /\ Sole /\ Shown /\ [Next]_vars => Shown'
  BY StartShown, RunShown, OthersShown DEF Next

\* In the same environment, once all is quiet, the PID in the runtime store is that
\* of the process that runs, and 0 when none does: an orphan record names no other.
THEOREM PidTrue ==
  ASSUME Mode = "never", "Restart" \notin Ops
  PROVE  Spec => []PidSettles
<1>1. Plain
  BY DEF Plain
<1>2. Init => Shown
  BY IncIs DEF Init, Shown, Waiting
<1>3. Balance /\ Sole /\ Shown => PidSettles
  <2> SUFFICES ASSUME Balance, Sole, Shown, Quiet PROVE PidSettles
    BY DEF PidSettles
  <2>1. published \in [state : States, pid : Inc \cup {0}]
    BY DEF Balance, Typing, TypeOK
  <2>2. \A i \in LiveRuns : pc[i] = "runRead" /\ own[i] = i /\ proc[i] = "alive"
    BY DEF Quiet, Sole, Own, LiveRuns
  <2>3. \A i \in Unreaped : pc[i] \in Waiting
    BY <2>2, Facts, IncIs DEF Sole, Watched, Quiet, Up, LiveRuns, Unreaped
  <2>4. published.pid \in Inc => published.pid \in Unreaped
    BY <2>2 DEF Shown, LiveRuns, Unreaped, Waiting
  <2>5. \A i \in Unreaped : published.pid = i
    BY <2>3 DEF Shown, Unreaped
  <2> QED BY <2>1, <2>4, <2>5 DEF PidSettles
<1> QED
  BY <1>1, <1>2, <1>3, SoleAlways, ShownNext, PTL DEF Spec
=============================================================================
